---- MODULE Spec2Model ----
(***************************************************************************)
(* Knowledge Tree generator: the alternating forward/backward pass         *)
(* orchestrator, the two pass engines and the concept stores they run on.  *)
(*                                                                         *)
(* Two state machines share this module:                                   *)
(*   Spec      Orchestrator.run / Orchestrator.run_single_pass, with the   *)
(*             two pass engines seen through the results they return;      *)
(*   SpecPass  ForwardPassEngine.execute / BackwardPassEngine.execute on a *)
(*             concept store, one candidate term at a time, together with  *)
(*             the direct store operations (add_requires, the contribution *)
(*             endpoint's create_concept).                                 *)
(***************************************************************************)
EXTENDS Integers, Sequences, FiniteSets, TLC

(***************************************************************************)
(* Bounds of the model.                                                    *)
(***************************************************************************)
MaxTarget == 4
MaxIterations == 3
MaxAdded == 2
MaxSingleTarget == 2

(***************************************************************************)
(* Generic helpers.                                                        *)
(***************************************************************************)
Max(a, b) == IF a >= b THEN a ELSE b

Min(a, b) == IF a <= b THEN a ELSE b

RECURSIVE SumAdded(_)
SumAdded(log) ==
    IF log = <<>> THEN 0
    ELSE log[Len(log)].added + SumAdded(SubSeq(log, 1, Len(log) - 1))

RECURSIVE ConcatErrors(_)
ConcatErrors(log) ==
    IF log = <<>> THEN <<>>
    ELSE ConcatErrors(SubSeq(log, 1, Len(log) - 1)) \o log[Len(log)].errors

(***************************************************************************)
(* Orchestrator state.                                                     *)
(***************************************************************************)
VARIABLES
    o_pc,             \* position of the caller in Orchestrator: idle / loop / done / single
    target_terms,     \* argument of run
    pass_ratio,       \* config.pass_ratio, a rational [num, den]
    max_iterations,   \* config.max_iterations
    batch_size,
    current,
    pass_type,
    iteration,
    forward_total,
    backward_total,
    forward_passes,
    backward_passes,
    all_errors,
    target_count,     \* argument of run_single_pass
    calls,            \* every invocation of an engine's execute, in order
    result            \* what run / run_single_pass handed back to the caller

orchVars == <<o_pc, target_terms, pass_ratio, max_iterations, batch_size,
              current, pass_type, iteration, forward_total, backward_total,
              forward_passes, backward_passes, all_errors, target_count, calls,
              result>>

(***************************************************************************)
(* Store and pass-engine state.                                            *)
(***************************************************************************)
VARIABLES
    store_kind,        \* "memory": InMemoryConceptStore, "mock": MockConceptStore,
                       \* "graph": ConceptRepository
    concepts,          \* the concepts of the store, in insertion order
    concepts_by_name,  \* InMemoryConceptStore.concepts_by_name: lower-cased name -> id
    relationships,     \* the REQUIRES edges <<dependent id, prerequisite id>>
    next_id,           \* source of fresh identifiers (uuid4)
    pass,              \* per running pass: the locals of execute
    passes_started,    \* number of execute calls so far
    created,           \* which operation created which concept
    api_log            \* the direct calls: add_requires on the store, create_concept

storeVars == <<store_kind, concepts, concepts_by_name, relationships, next_id>>

passVars == <<pass, passes_started, created, api_log>>

(***************************************************************************)
(* State of the MVG service and of the definition formatter.               *)
(***************************************************************************)
VARIABLES
    m_pc,        \* where the POST /mvg/generate handler is
    m_request,   \* its MVGRequest: target and domain
    m_reply,     \* what the generative backend answered, or its failure
    m_outcome,   \* what MVGService.generate returned or raised
    m_status,    \* the HTTP status of the response
    m_lookups,   \* per path step, whether the read of the store succeeded
    f_pc,        \* where DefinitionFormatter.format_definition is
    f_raw_data,  \* its RawConceptData argument
    f_calls,     \* the backend calls it has made, in order
    f_md         \* the Markdown it returned

mvgVars == <<m_pc, m_request, m_reply, m_outcome, m_status, m_lookups>>

fmtVars == <<f_pc, f_raw_data, f_calls, f_md>>

svcVars == <<mvgVars, fmtVars>>

\* all the variables of the model
vars == <<orchVars, storeVars, passVars, svcVars>>

None == [kind |-> "none"]

\* pass_ratio is a float in the source; the model keeps it as an exact ratio.
PassRatios ==
    { [num |-> 0, den |-> 1], [num |-> 1, den |-> 10],
      [num |-> 1, den |-> 2], [num |-> 3, den |-> 2] }

\* Python's int() of a float truncates toward zero.
IntTrunc(n, d) == IF n >= 0 THEN n \div d ELSE -((-n) \div d)

BatchSize_NoFloor(t, r) == IntTrunc(t * r.num, r.den)

BatchSize(t, r) == Max(1, IntTrunc(t * r.num, r.den))

LoopCond_NoCap(cur, tgt, it, maxit) == cur < tgt

LoopCond(cur, tgt, it, maxit) == cur < tgt /\ it < maxit

TermsThisBatch_NoMin(bs, tgt, cur) == bs

TermsThisBatch(bs, tgt, cur) == Min(bs, tgt - cur)

NextPassType_Conditional(pt, added) ==
    IF added = 0 THEN pt
    ELSE IF pt = "forward" THEN "backward" ELSE "forward"

NextPassType(pt, added) == IF pt = "forward" THEN "backward" ELSE "forward"

\* Error lists an engine can hand back (the strings are opaque to the orchestrator).
\* no error, one failed candidate, ten failed candidates
ErrorLists ==
    { <<>>, <<"Failed to create 'Set': boom">>,
      [i \in 1..10 |-> "Failed to create 'Map': boom"] }

\* What an engine's execute can return for a request of n concepts.  The
\* orchestrator also runs against test doubles, which may report more
\* concepts than they were asked for.
ForwardPassResults ==
    [concepts_added : 0..MaxAdded, concepts_skipped : {0}, errors : ErrorLists]

BackwardPassResults ==
    [concepts_added : 0..MaxAdded, concepts_skipped : {0},
     prerequisites_linked : {0}, errors : ErrorLists]

OrchInit ==
    /\ o_pc = "idle"
    /\ target_terms = 0
    /\ pass_ratio \in PassRatios
    /\ max_iterations \in 0..MaxIterations
    /\ batch_size = 0
    /\ current = 0
    /\ pass_type = "forward"
    /\ iteration = 0
    /\ forward_total = 0
    /\ backward_total = 0
    /\ forward_passes = 0
    /\ backward_passes = 0
    /\ all_errors = <<>>
    /\ target_count = 0
    /\ calls = <<>>
    /\ result = None

\* Orchestrator.run up to the first evaluation of the loop condition.
RunStart ==
    /\ o_pc = "idle"
    /\ \E t \in (-1)..MaxTarget :
        /\ target_terms' = t
        /\ batch_size' = BatchSize(t, pass_ratio)
    /\ current' = 0
    /\ pass_type' = "forward"
    /\ iteration' = 0
    /\ forward_total' = 0
    /\ backward_total' = 0
    /\ forward_passes' = 0
    /\ backward_passes' = 0
    /\ all_errors' = <<>>
    /\ o_pc' = "loop"
    /\ UNCHANGED <<pass_ratio, max_iterations, target_count, calls, result>>
    /\ UNCHANGED <<storeVars, passVars, svcVars>>

\* One iteration of the while loop with pass_type = "forward".
RunForwardPass ==
    /\ o_pc = "loop"
    /\ LoopCond(current, target_terms, iteration, max_iterations)
    /\ iteration <= MaxIterations + 1
    /\ pass_type = "forward"
    /\ LET terms_this_batch == TermsThisBatch(batch_size, target_terms, current)
       IN \E res \in ForwardPassResults :
            /\ calls' = Append(calls, [engine |-> "forward",
                                       target_count |-> terms_this_batch,
                                       added |-> res.concepts_added,
                                       errors |-> res.errors,
                                       result |-> res])
            /\ forward_total' = forward_total + res.concepts_added
            /\ forward_passes' = forward_passes + 1
            /\ all_errors' = all_errors \o res.errors
            /\ pass_type' = NextPassType(pass_type, res.concepts_added)
            /\ current' = current + res.concepts_added
            /\ iteration' = iteration + 1
    /\ UNCHANGED <<o_pc, target_terms, pass_ratio, max_iterations, batch_size,
                   backward_total, backward_passes, target_count, result>>
    /\ UNCHANGED <<storeVars, passVars, svcVars>>

\* One iteration of the while loop with pass_type = "backward".
RunBackwardPass ==
    /\ o_pc = "loop"
    /\ LoopCond(current, target_terms, iteration, max_iterations)
    /\ iteration <= MaxIterations + 1
    /\ pass_type # "forward"
    /\ LET terms_this_batch == TermsThisBatch(batch_size, target_terms, current)
       IN \E res \in BackwardPassResults :
            /\ calls' = Append(calls, [engine |-> "backward",
                                       target_count |-> terms_this_batch,
                                       added |-> res.concepts_added,
                                       errors |-> res.errors,
                                       result |-> res])
            /\ backward_total' = backward_total + res.concepts_added
            /\ backward_passes' = backward_passes + 1
            /\ all_errors' = all_errors \o res.errors
            /\ pass_type' = NextPassType(pass_type, res.concepts_added)
            /\ current' = current + res.concepts_added
            /\ iteration' = iteration + 1
    /\ UNCHANGED <<o_pc, target_terms, pass_ratio, max_iterations, batch_size,
                   forward_total, forward_passes, target_count, result>>
    /\ UNCHANGED <<storeVars, passVars, svcVars>>

GenerationResult_Swapped(total, fwd, bwd, fp, bp, errs) ==
    [kind |-> "GenerationResult",
     total_concepts_added |-> total,
     forward_concepts |-> bwd,
     backward_concepts |-> fwd,
     total_passes |-> fp + bp,
     forward_passes |-> fp,
     backward_passes |-> bp,
     all_errors |-> errs]

\* the GenerationResult built at the end of run
GenerationResult(total, fwd, bwd, fp, bp, errs) ==
    [kind |-> "GenerationResult",
     total_concepts_added |-> total,
     forward_concepts |-> fwd,
     backward_concepts |-> bwd,
     total_passes |-> fp + bp,
     forward_passes |-> fp,
     backward_passes |-> bp,
     all_errors |-> errs]

SuccessErrorLimit == 20

Success_ZeroErrors(r) ==
    r.total_concepts_added > 0 /\ Len(r.all_errors) = 0

\* GenerationResult.success
Success(r) ==
    r.total_concepts_added > 0 /\ Len(r.all_errors) < SuccessErrorLimit

RunReturn_Early ==
    /\ o_pc = "loop"
    /\ result' = GenerationResult(current, forward_total, backward_total,
                                  forward_passes, backward_passes, all_errors)
    /\ o_pc' = "done"
    /\ UNCHANGED <<target_terms, pass_ratio, max_iterations, batch_size,
                   current, pass_type, iteration, forward_total, backward_total,
                   forward_passes, backward_passes, all_errors, target_count,
                   calls>>
    /\ UNCHANGED <<storeVars, passVars, svcVars>>

\* The loop condition is false: build and return the GenerationResult.
RunReturn ==
    /\ o_pc = "loop"
    /\ ~LoopCond(current, target_terms, iteration, max_iterations)
    /\ result' = GenerationResult(current, forward_total, backward_total,
                                  forward_passes, backward_passes, all_errors)
    /\ o_pc' = "done"
    /\ UNCHANGED <<target_terms, pass_ratio, max_iterations, batch_size,
                   current, pass_type, iteration, forward_total, backward_total,
                   forward_passes, backward_passes, all_errors, target_count,
                   calls>>
    /\ UNCHANGED <<storeVars, passVars, svcVars>>

PassTypeNames == {"forward", "backward", "invalid", "Forward"}

SingleDispatch_Lenient(pt) ==
    IF pt = "forward" THEN "forward" ELSE "backward"

\* Which branch of run_single_pass a pass_type takes.
SingleDispatch(pt) ==
    IF pt = "forward" THEN "forward"
    ELSE IF pt = "backward" THEN "backward"
    ELSE "ValueError"

\* Orchestrator.run_single_pass(pass_type, target_count).
RunSinglePass ==
    /\ o_pc = "idle"
    /\ \E pt \in PassTypeNames, tc \in 0..MaxSingleTarget :
        /\ pass_type' = pt
        /\ target_count' = tc
        /\ CASE SingleDispatch(pt) = "forward" ->
                  \E res \in ForwardPassResults :
                    /\ calls' = Append(calls, [engine |-> "forward",
                                               target_count |-> tc,
                                               added |-> res.concepts_added,
                                               errors |-> res.errors,
                                               result |-> res])
                    /\ result' = [kind |-> "PassResult", value |-> res]
             [] SingleDispatch(pt) = "backward" ->
                  \E res \in BackwardPassResults :
                    /\ calls' = Append(calls, [engine |-> "backward",
                                               target_count |-> tc,
                                               added |-> res.concepts_added,
                                               errors |-> res.errors,
                                               result |-> res])
                    /\ result' = [kind |-> "PassResult", value |-> res]
             [] OTHER ->
                    /\ calls' = calls
                    /\ result' = [kind |-> "ValueError"]
    /\ o_pc' = "single"
    /\ UNCHANGED <<target_terms, pass_ratio, max_iterations, batch_size,
                   current, iteration, forward_total, backward_total, forward_passes,
                   backward_passes, all_errors>>
    /\ UNCHANGED <<storeVars, passVars, svcVars>>


(***************************************************************************)
(* Names.  A name is the sequence of its characters, so that lower(),      *)
(* len() and isupper() are computed on it as Python computes them.         *)
(***************************************************************************)
UpperCase == <<"A", "B", "C", "D", "E", "F", "G", "H", "I", "J", "K", "L", "M", "N", "O", "P", "Q", "R", "S", "T", "U", "V", "W", "X", "Y", "Z">>

LowerCase == <<"a", "b", "c", "d", "e", "f", "g", "h", "i", "j", "k", "l", "m", "n", "o", "p", "q", "r", "s", "t", "u", "v", "w", "x", "y", "z">>

IsUpper(c) == \E i \in 1..Len(UpperCase) : UpperCase[i] = c

LowerChar(c) ==
    IF IsUpper(c)
    THEN LowerCase[CHOOSE i \in 1..Len(UpperCase) : UpperCase[i] = c]
    ELSE c

\* str.lower()
Lower(s) == [i \in 1..Len(s) |-> LowerChar(s[i])]

N_Set == <<"S", "e", "t">>

N_set == <<"s", "e", "t">>

N_Map == <<"M", "a", "p">>

N_Ring == <<"R", "i", "n", "g">>

N_Ext == <<"E", "x", "t">>

N_Vec == <<"V", "e", "c">>

N_pi == <<"p", "i">>

N_note == <<"n", "o", "t", "e">>

\* further concept names: Tea, Teb, Tec, ...
TermName(i) == <<"T", "e", LowerCase[i]>>

\* the names of machine-made axioms: Axa, Axb, Axc, ...
AxiomName(i) == <<"A", "x", LowerCase[i]>>

\* the set the forward pass filters bold and see-also terms against
non_concepts ==
    {
      <<"e", "x", "a", "m", "p", "l", "e">>,
      <<"e", "x", "a", "m", "p", "l", "e", "s">>,
      <<"n", "o", "t", "e">>,
      <<"n", "o", "t", "e", "s">>,
      <<"p", "r", "o", "o", "f">>,
      <<"s", "e", "e">>,
      <<"t", "h", "a", "t", " ", "i", "s">>,
      <<"i", ".", "e", ".">>,
      <<"e", ".", "g", ".">>,
      <<"d", "e", "f", "i", "n", "i", "t", "i", "o", "n">>,
      <<"t", "h", "e", "o", "r", "e", "m">>,
      <<"l", "e", "m", "m", "a">>,
      <<"i", "n", "f", "o", "r", "m", "a", "l">>,
      <<"f", "o", "r", "m", "a", "l">>,
      <<"p", "r", "o", "p", "e", "r", "t", "y">>,
      <<"p", "r", "o", "p", "e", "r", "t", "i", "e", "s">>,
      <<"c", "o", "n", "s", "e", "q", "u", "e", "n", "c", "e">>
    }

greek ==
    {
      <<"a", "l", "p", "h", "a">>,
      <<"b", "e", "t", "a">>,
      <<"g", "a", "m", "m", "a">>,
      <<"d", "e", "l", "t", "a">>,
      <<"o", "m", "e", "g", "a">>,
      <<"s", "i", "g", "m", "a">>,
      <<"p", "i">>
    }

\* BackwardPassEngine.DOMAIN_FUNDAMENTALS
DOMAIN_FUNDAMENTALS(domain) ==
    CASE domain = "MATH" ->
        <<
          <<"S", "e", "t">>,
          <<"F", "u", "n", "c", "t", "i", "o", "n">>,
          <<"R", "e", "l", "a", "t", "i", "o", "n">>,
          <<"O", "r", "d", "e", "r", "e", "d", " ", "P", "a", "i", "r">>,
          <<"S", "u", "b", "s", "e", "t">>,
          <<"C", "a", "r", "d", "i", "n", "a", "l", "i", "t", "y">>,
          <<"B", "i", "j", "e", "c", "t", "i", "o", "n">>,
          <<"I", "n", "j", "e", "c", "t", "i", "o", "n">>,
          <<"S", "u", "r", "j", "e", "c", "t", "i", "o", "n">>,
          <<"E", "q", "u", "i", "v", "a", "l", "e", "n", "c", "e", " ", "R", "e", "l", "a", "t", "i", "o", "n">>,
          <<"P", "a", "r", "t", "i", "a", "l", " ", "O", "r", "d", "e", "r">>,
          <<"T", "o", "t", "a", "l", " ", "O", "r", "d", "e", "r">>
        >>
      [] domain = "PHYSICS" ->
        <<
          <<"F", "o", "r", "c", "e">>,
          <<"E", "n", "e", "r", "g", "y">>,
          <<"M", "o", "m", "e", "n", "t", "u", "m">>,
          <<"M", "a", "s", "s">>,
          <<"V", "e", "l", "o", "c", "i", "t", "y">>,
          <<"A", "c", "c", "e", "l", "e", "r", "a", "t", "i", "o", "n">>,
          <<"W", "o", "r", "k">>,
          <<"P", "o", "w", "e", "r">>,
          <<"V", "e", "c", "t", "o", "r">>,
          <<"S", "c", "a", "l", "a", "r">>,
          <<"F", "i", "e", "l", "d">>
        >>
      [] domain = "CHEMISTRY" ->
        <<
          <<"A", "t", "o", "m">>,
          <<"M", "o", "l", "e", "c", "u", "l", "e">>,
          <<"E", "l", "e", "m", "e", "n", "t">>,
          <<"C", "o", "m", "p", "o", "u", "n", "d">>,
          <<"C", "h", "e", "m", "i", "c", "a", "l", " ", "B", "o", "n", "d">>,
          <<"E", "l", "e", "c", "t", "r", "o", "n">>,
          <<"P", "r", "o", "t", "o", "n">>,
          <<"N", "e", "u", "t", "r", "o", "n">>,
          <<"I", "o", "n">>,
          <<"C", "o", "v", "a", "l", "e", "n", "t", " ", "B", "o", "n", "d">>
        >>
      [] domain = "BIOLOGY" ->
        <<
          <<"C", "e", "l", "l">>,
          <<"D", "N", "A">>,
          <<"R", "N", "A">>,
          <<"P", "r", "o", "t", "e", "i", "n">>,
          <<"G", "e", "n", "e">>,
          <<"C", "h", "r", "o", "m", "o", "s", "o", "m", "e">>,
          <<"N", "u", "c", "l", "e", "u", "s">>,
          <<"M", "i", "t", "o", "c", "h", "o", "n", "d", "r", "i", "a">>,
          <<"E", "n", "z", "y", "m", "e">>,
          <<"M", "e", "t", "a", "b", "o", "l", "i", "s", "m">>
        >>
      [] domain = "CS" ->
        <<
          <<"A", "l", "g", "o", "r", "i", "t", "h", "m">>,
          <<"D", "a", "t", "a", " ", "S", "t", "r", "u", "c", "t", "u", "r", "e">>,
          <<"C", "o", "m", "p", "l", "e", "x", "i", "t", "y">>,
          <<"F", "u", "n", "c", "t", "i", "o", "n">>,
          <<"V", "a", "r", "i", "a", "b", "l", "e">>,
          <<"T", "y", "p", "e">>,
          <<"G", "r", "a", "p", "h">>,
          <<"T", "r", "e", "e">>,
          <<"S", "e", "t">>,
          <<"R", "e", "c", "u", "r", "s", "i", "o", "n">>
        >>
      [] OTHER -> <<>>

(***************************************************************************)
(* Concepts and the concept stores.                                        *)
(*                                                                         *)
(* definition_md is kept as what the engines' regular expressions capture  *)
(* from the text: bold (** spans), see_also (tokens after see also /       *)
(* related / cf.), requires (tokens after requires / assumes / needs /     *)
(* depends on), see_refs (see **X**), mentions (the domain fundamentals    *)
(* that occur in the text) and paren ((see X) references); body_by tells   *)
(* where the body of the text comes from.                                  *)
(***************************************************************************)
Definition(b, sa, rq, sr, mn, pa) ==
    [bold |-> b, see_also |-> sa, requires |-> rq, see_refs |-> sr,
     mentions |-> mn, paren |-> pa, body_by |-> "given"]

EmptyDefinition == Definition(<<>>, <<>>, <<>>, <<>>, {}, <<>>)

Concept(id, name, def, domain, subfield, level, related, axiom, verified) ==
    [id |-> id, name |-> name, definition_md |-> def, domain |-> domain,
     subfield |-> subfield, complexity_level |-> level,
     related_concepts |-> related, is_axiom |-> axiom, is_verified |-> verified]

NoConcept == [id |-> 0]

ConceptById(id) ==
    LET i == CHOOSE k \in 1..Len(concepts) : concepts[k].id = id IN concepts[i]

HasId(cs, id) == \E k \in 1..Len(cs) : cs[k].id = id

\* MockConceptStore.get_by_name: first concept whose name is equal to name.
MockGetByName(cs, name) ==
    IF \E k \in 1..Len(cs) : cs[k].name = name
    THEN cs[CHOOSE k \in 1..Len(cs) :
                /\ cs[k].name = name
                /\ \A j \in 1..(k - 1) : cs[j].name # name]
    ELSE NoConcept

\* InMemoryConceptStore.get_by_name: concepts_by_name.get(name.lower()).
MemoryGetByName(cs, byname, name) ==
    IF Lower(name) \in DOMAIN byname
    THEN cs[CHOOSE k \in 1..Len(cs) : cs[k].id = byname[Lower(name)]]
    ELSE NoConcept

\* store.get_by_name(name) of the store a pass runs on.
GetByName(kind, cs, byname, name) ==
    IF kind = "memory" THEN MemoryGetByName(cs, byname, name)
    ELSE MockGetByName(cs, name)

\* Python truth value of a get_by_name result.
Found(c) == c # NoConcept

\* store.get_axioms(domain)
GetAxioms(cs, domain) ==
    SelectSeq(cs, LAMBDA c : c.domain = domain /\ c.is_axiom)

\* store.get_by_complexity_range(domain, min_level, max_level)
GetByComplexityRange(cs, domain, min_level, max_level) ==
    SelectSeq(cs, LAMBDA c : /\ c.domain = domain
                             /\ min_level <= c.complexity_level
                             /\ c.complexity_level <= max_level)

\* store.get_complex_concepts(domain, min_level)
GetComplexConcepts(cs, domain, min_level) ==
    SelectSeq(cs, LAMBDA c : c.domain = domain /\ c.complexity_level >= min_level)

\* store.get_incomplete_concepts(domain): the in-memory store reports none,
\* the test store reports the non-axioms without an outgoing REQUIRES edge.
GetIncompleteConcepts(kind, cs, rel, domain) ==
    IF kind = "memory" THEN <<>>
    ELSE SelectSeq(cs, LAMBDA c :
            /\ c.domain = domain
            /\ ~(\E k \in 1..Len(rel) : rel[k][1] = c.id)
            /\ ~c.is_axiom)

CreateConcepts_Replace(cs, concept) == <<concept>>

\* store.create(concept): the new list of concepts.
CreateConcepts(cs, concept) == Append(cs, concept)

CreateByName_NoIndex(kind, byname, concept) == byname

\* store.create(concept): the new name index (kept by the in-memory store only).
CreateByName(kind, byname, concept) ==
    IF kind = "memory"
    THEN (Lower(concept.name) :> concept.id) @@ byname
    ELSE byname

\* store.add_requires(concept_id, prerequisite_id): the list-backed stores
\* append the pair; the graph store MERGEs the edge between two matched nodes.
AddRequires(kind, cs, rel, a, b) ==
    IF kind = "graph"
    THEN IF /\ HasId(cs, a)
            /\ HasId(cs, b)
            /\ ~(\E k \in 1..Len(rel) : rel[k] = <<a, b>>)
         THEN Append(rel, <<a, b>>)
         ELSE rel
    ELSE Append(rel, <<a, b>>)

\* number of REQUIRES edges from a to b
EdgeCount(rel, a, b) == Cardinality({k \in 1..Len(rel) : rel[k] = <<a, b>>})

(***************************************************************************)
(* Bounds and inputs of the pass model.                                    *)
(***************************************************************************)
MaxOps == 2
MaxPassTarget == 2
MaxCreated == 2
MaxFailures == 1

ForwardMaxComplexity == 3
BackwardMinComplexity == 2
SeedCap == 20
ComplexCap == 20
RelatedTermsCap == 10
PrerequisitesCap == 8
LlmPrerequisitesCap == 5
LlmThreshold == 3

Procs == {1, 2}

ValidDomains == {"MATH", "PHYSICS", "CHEMISTRY", "BIOLOGY", "CS"}

\* the domain lists a pass is run with
DomainLists == { <<"CS", "MATH">> }

\* A store as the seed loader or a test fixture leaves it: an axiom, a
\* first-level concept and a complex concept whose text names prerequisites.
SeedConcepts ==
    << Concept(1, N_Ext,
               Definition(<<N_Map, N_note>>, <<N_pi>>, <<>>, <<>>, {}, <<>>),
               "MATH", "set_theory", 0, <<N_set, N_Set>>, TRUE, TRUE),
       Concept(2, N_Set, EmptyDefinition,
               "MATH", "set_theory", 1, <<N_Map>>, FALSE, TRUE),
       Concept(3, N_Vec,
               Definition(<<>>, <<>>, <<N_set, N_Ring>>, <<N_Set>>, {N_Set}, <<N_Vec>>),
               "MATH", "linear_algebra", 3, <<>>, FALSE, TRUE) >>

InitialConcepts == { <<>>, SeedConcepts }

RECURSIVE IndexByName(_)
\* the name index after creating the concepts of cs in order
IndexByName(cs) ==
    IF cs = <<>> THEN <<>>
    ELSE (Lower(cs[Len(cs)].name) :> cs[Len(cs)].id)
            @@ IndexByName(SubSeq(cs, 1, Len(cs) - 1))

IdlePass ==
    [pc |-> "idle", kind |-> "none", domains |-> <<>>, target_count |-> 0,
     level |-> 0, di |-> 1, seeds |-> <<>>, si |-> 1, terms |-> <<>>, ti |-> 1,
     added |-> 0, skipped |-> 0, linked |-> 0, errors |-> <<>>,
     failed |-> <<>>, succeeded |-> <<>>, stored |-> <<>>, result |-> None,
     llm |-> [asked |-> 0, ok |-> TRUE, returned |-> <<>>, used |-> <<>>]]

StoreInit ==
    /\ store_kind \in {"memory", "mock", "graph"}
    /\ concepts \in InitialConcepts
    /\ concepts_by_name = IF store_kind = "memory" THEN IndexByName(concepts) ELSE <<>>
    /\ relationships = <<>>
    /\ next_id = 4
    /\ pass = [p \in Procs |-> IdlePass]
    /\ passes_started = 0
    /\ created = <<>>
    /\ api_log = <<>>

\* the store is not touched by the orchestrator model
StoreUnused ==
    /\ store_kind = "memory"
    /\ concepts = <<>>
    /\ concepts_by_name = <<>>
    /\ relationships = <<>>
    /\ next_id = 4
    /\ pass = [p \in Procs |-> IdlePass]
    /\ passes_started = 0
    /\ created = <<>>
    /\ api_log = <<>>

(***************************************************************************)
(* Direct store operations.                                                *)
(***************************************************************************)
\* the concepts a direct add_requires call is made for
DirectLinkIds == {2, 3}

\* a new operation (a pass or a direct call) can be started
CanStartOp ==
    /\ passes_started + Len(api_log) < MaxOps
    /\ \A p \in Procs : pass[p].pc \in {"idle", "done"}

\* A caller links two concepts: store.add_requires(a, b).
StoreAddRequires ==
    /\ CanStartOp
    /\ \E a \in DirectLinkIds, b \in DirectLinkIds :
        /\ HasId(concepts, a)
        /\ HasId(concepts, b)
        /\ relationships' = AddRequires(store_kind, concepts, relationships, a, b)
        /\ api_log' = Append(api_log, [op |-> "add_requires", a |-> a, b |-> b,
                                       status |-> 200])
    /\ UNCHANGED <<store_kind, concepts, concepts_by_name, next_id, pass,
                   passes_started, created>>
    /\ UNCHANGED <<orchVars, svcVars>>

ContributionLevels == (-1)..1

ContributionDomains == {"MATH", "ALCHEMY"}

ContributionNames == {N_Map}

IsAxiomOfLevel_Low(level) == level <= 1

\* create_concept: is_axiom = (request.complexity_level == 0)
IsAxiomOfLevel(level) == level = 0

\* create_concept: the request passes validation
ContributionAccepted(domain, level) == domain \in ValidDomains /\ level >= 0

\* POST /contributions/concept, up to the creation of the concept node.
CreateConcept ==
    /\ CanStartOp
    /\ \E name \in ContributionNames, domain \in ContributionDomains,
          level \in ContributionLevels :
        IF ContributionAccepted(domain, level)
        THEN LET c == Concept(next_id, name, EmptyDefinition, domain, "general",
                              level, <<>>, IsAxiomOfLevel(level), FALSE)
             IN /\ concepts' = CreateConcepts(concepts, c)
                /\ concepts_by_name' = CreateByName(store_kind, concepts_by_name, c)
                /\ next_id' = next_id + 1
                /\ created' = Append(created, [id |-> c.id, by |-> "contribution",
                                               trigger |-> 0, proc |-> 0,
                                               resolved |-> TRUE])
                /\ api_log' = Append(api_log, [op |-> "create_concept", a |-> c.id,
                                               b |-> level, status |-> 200])
        ELSE /\ UNCHANGED <<concepts, concepts_by_name, next_id, created>>
             /\ api_log' = Append(api_log, [op |-> "create_concept", a |-> 0,
                                            b |-> level, status |-> 400])
    /\ UNCHANGED <<store_kind, relationships, pass, passes_started>>
    /\ UNCHANGED <<orchVars, svcVars>>

(***************************************************************************)
(* DefinitionFormatter.  A definition text is a sequence of tokens: the    *)
(* dollar sign, LaTeX commands, braces and plain words.                    *)
(***************************************************************************)
\* the commands among LATEX_PATTERNS
LatexCommands ==
    { "\\frac{", "\\sum", "\\int", "\\lim", "\\mathbb{", "\\forall", "\\exists",
      "\\in", "\\subseteq" }

\* DefinitionFormatter._has_latex
HasLatex(text) ==
    \* \$[^$]+\$
    \/ \E i, j \in 1..Len(text) :
          /\ i + 1 < j
          /\ text[i] = "$"
          /\ text[j] = "$"
          /\ \A k \in (i + 1)..(j - 1) : text[k] # "$"
    \* \$\$[^$]+\$\$
    \/ \E i, j \in 1..Len(text) :
          /\ i + 2 < j
          /\ j + 1 <= Len(text)
          /\ text[i] = "$" /\ text[i + 1] = "$"
          /\ text[j] = "$" /\ text[j + 1] = "$"
          /\ \A k \in (i + 2)..(j - 1) : text[k] # "$"
    \* \\begin\{[^}]+\}
    \/ \E i, j \in 1..Len(text) :
          /\ i + 1 < j
          /\ text[i] = "\\begin{"
          /\ text[j] = "}"
          /\ \A k \in (i + 1)..(j - 1) : text[k] # "}"
    \* the commands
    \/ \E i \in 1..Len(text) : text[i] \in LatexCommands

RawConceptData(name, domain, subfield, definition, notations, examples) ==
    [name |-> name, domain |-> domain, subfield |-> subfield,
     definition |-> definition, notations |-> notations, examples |-> examples]

BackendCallKind_AlwaysFormalize(raw_def) ==
    IF raw_def # <<>> THEN "formalize" ELSE "generate"

\* lines 124-127: which backend call format_definition makes for a raw
\* definition, "none" when it keeps the text
BackendCallKind(raw_def) ==
    IF raw_def # <<>> /\ ~HasLatex(raw_def) THEN "formalize"
    ELSE IF raw_def # <<>> THEN "none"
    ELSE "generate"

\* the calls of self._llm.complete made by format_definition
BackendCalls(raw_data) ==
    IF BackendCallKind(raw_data.definition) = "none" THEN <<>>
    ELSE << [kind |-> BackendCallKind(raw_data.definition),
             name |-> raw_data.name, domain |-> raw_data.domain] >>

\* format_definition for a completion of the backend (used when it is
\* called): the Markdown card with "## name", the body, the notation and
\* example sections
FormatDefinition(raw_data, completion) ==
    [header |-> raw_data.name,
     body |-> IF BackendCallKind(raw_data.definition) = "none"
              THEN raw_data.definition
              ELSE completion,
     notation |-> raw_data.notations,
     examples |-> raw_data.examples]

(***************************************************************************)
(* format_definition on its own.                                           *)
(***************************************************************************)
MaxRawLen == 3

\* raw definitions of up to MaxRawLen tokens
RawDefinitions ==
    UNION { [1..n -> { "$", "x", "\\in", "\\begin{", "}", "\\alpha" }] :
              n \in 0..MaxRawLen }

NotationLists == { <<>>, <<"x">> }

\* LLMClient.complete: a text (possibly empty) or an exception
Completions ==
    { [ok |-> TRUE, text |-> <<"$", "x", "$">>], [ok |-> TRUE, text |-> <<>>],
      [ok |-> FALSE, text |-> <<>>] }

NoCard == [header |-> <<>>, body |-> <<>>, notation |-> <<>>, examples |-> <<>>]

FmtUnused ==
    /\ f_pc = "unused"
    /\ f_raw_data = RawConceptData(<<>>, "none", "", <<>>, <<>>, <<>>)
    /\ f_calls = <<>>
    /\ f_md = NoCard

\* format_definition(raw_data) is called
FormatEnter ==
    /\ f_pc \in {"done", "raised"}
    /\ \E d \in RawDefinitions, n \in NotationLists :
          f_raw_data' = RawConceptData(N_Set, "MATH", "set_theory", d, n, <<>>)
    /\ f_pc' = "entered"
    /\ f_calls' = <<>>
    /\ f_md' = NoCard
    /\ UNCHANGED <<orchVars, storeVars, passVars, mvgVars>>

\* format_definition runs: the backend call it makes, if any, returns a
\* completion or raises
FormatRun ==
    /\ f_pc = "entered"
    /\ f_calls' = BackendCalls(f_raw_data)
    /\ \E completion \in Completions :
        IF BackendCalls(f_raw_data) # <<>> /\ ~completion.ok
        THEN f_pc' = "raised" /\ f_md' = NoCard
        ELSE f_pc' = "done" /\ f_md' = FormatDefinition(f_raw_data, completion.text)
    /\ UNCHANGED f_raw_data
    /\ UNCHANGED <<orchVars, storeVars, passVars, mvgVars>>

(***************************************************************************)
(* Sequence helpers.                                                       *)
(***************************************************************************)
\* seq[:n]
Take(seq, n) == SubSeq(seq, 1, Min(Len(seq), Max(n, 0)))

\* the orders random.shuffle can leave a list in
Shuffles(seq) ==
    LET n == Len(seq)
        perms == {f \in [1..n -> 1..n] : \A i, j \in 1..n : f[i] = f[j] => i = j}
    IN { [i \in 1..n |-> seq[f[i]]] : f \in perms }

(***************************************************************************)
(* Forward pass: candidate terms and seeds.                                *)
(***************************************************************************)
\* ForwardPassEngine._is_likely_concept
IsLikelyConcept(term) ==
    IF Len(term) < 3 THEN FALSE
    ELSE IF Lower(term) \in non_concepts THEN FALSE
    ELSE IF IsUpper(term[1]) THEN TRUE
    ELSE IF Lower(term) \in greek THEN TRUE
    ELSE FALSE

RECURSIVE DedupeRelated(_, _, _)
\* the "deduplicate while preserving order" loop of _extract_related_terms
DedupeRelated(terms, seen, name) ==
    IF terms = <<>> THEN <<>>
    ELSE IF Lower(Head(terms)) \notin seen /\ Head(terms) # name
         THEN <<Head(terms)>> \o
              DedupeRelated(Tail(terms), seen \cup {Lower(Head(terms))}, name)
         ELSE DedupeRelated(Tail(terms), seen, name)

\* ForwardPassEngine._extract_related_terms
ExtractRelatedTerms(concept) ==
    LET terms == concept.related_concepts
                 \o SelectSeq(concept.definition_md.bold, IsLikelyConcept)
                 \o SelectSeq(concept.definition_md.see_also,
                              LAMBDA t : t # <<>> /\ IsLikelyConcept(t))
    IN Take(DedupeRelated(terms, {}, concept.name), RelatedTermsCap)

\* ForwardPassEngine._get_seed_concepts: the lists it can return
GetSeedConcepts(cs, domain, max_complexity) ==
    LET axioms == GetAxioms(cs, domain)
    IN IF Len(axioms) < SeedCap
       THEN { axioms \o Take(low, SeedCap - Len(axioms)) :
                low \in Shuffles(GetByComplexityRange(cs, domain, 1, max_complexity)) }
       ELSE { axioms }

(***************************************************************************)
(* What the extraction adapters and the formatter can hand back for a      *)
(* term: the related-term hints, the prerequisite hints and the formatted  *)
(* definition text.                                                        *)
(***************************************************************************)
BareExtractedConcept_Informal ==
    [resolved |-> FALSE, raw_definition |-> <<"x">>, related_terms |-> <<>>,
     prerequisites |-> <<>>, definition_md |-> EmptyDefinition]

\* ExtractedConcept(name=term, raw_definition="", domain, subfield): what the
\* engines go on with when no adapter resolves the term
BareExtractedConcept ==
    [resolved |-> FALSE, raw_definition |-> <<>>, related_terms |-> <<>>,
     prerequisites |-> <<>>, definition_md |-> EmptyDefinition]

\* the adapter resolves the term (an informal text with hints), or it does
\* not (can_extract is false or extract returns None)
Extractions ==
    { BareExtractedConcept,
      [resolved |-> TRUE, raw_definition |-> <<"x">>,
       related_terms |-> <<N_Ring>>, prerequisites |-> <<N_Set>>,
       definition_md |-> Definition(<<>>, <<>>, <<N_Map>>, <<>>, {}, <<>>)] }

\* formatter.format_definition(raw_data): the text of the new concept, its
\* body kept from the raw definition or written by the backend
FormattedDefinition(ex) ==
    [ex.definition_md EXCEPT
        !.body_by = IF BackendCallKind(ex.raw_definition) = "none"
                    THEN "raw"
                    ELSE BackendCallKind(ex.raw_definition)]

\* where the processing of a candidate can raise
FailurePoints == {"extract", "format", "create", "link"}

\* the entry of the error list
ErrorEntry(prefix, term, cause) == [prefix |-> prefix, term |-> term, cause |-> cause]

ForwardComplexity_Same(base_complexity) == base_complexity

\* _extract_and_create_concept: complexity = base_complexity + 1
ForwardComplexity(base_complexity) == base_complexity + 1

ForwardPassResult(added, skipped, errors) ==
    [concepts_added |-> added, concepts_skipped |-> skipped, errors |-> errors]

RECURSIVE LinkMentioned(_, _, _, _, _, _)
\* "link to any mentioned prerequisites": the edges after the loop
LinkMentioned(kind, cs, byname, rel, id, names) ==
    IF names = <<>> THEN rel
    ELSE LET prereq == GetByName(kind, cs, byname, Head(names))
         IN LinkMentioned(kind, cs, byname,
                          IF Found(prereq)
                          THEN AddRequires(kind, cs, rel, id, prereq.id)
                          ELSE rel,
                          id, Tail(names))

ForwardOnFailure_Abort(r, term, cause, storedIds) ==
    [r EXCEPT !.pc = "raised",
              !.failed = Append(@, term),
              !.stored = @ \o storedIds]

\* the except branch of execute's term loop: record the error, go on with
\* the next term
ForwardOnFailure(r, term, cause, storedIds) ==
    [r EXCEPT !.pc = "term",
              !.ti = @ + 1,
              !.errors = Append(@, ErrorEntry("Failed to create", term, cause)),
              !.failed = Append(@, term),
              !.stored = @ \o storedIds]

TargetReached_Late(added, wanted) == added > wanted

\* "if added >= target_count: break", at the head of each of the three loops
TargetReached(added, wanted) == added >= wanted

ForwardOnExisting_Uncounted(r) == [r EXCEPT !.ti = @ + 1]

\* the candidate exists in the store: "skipped += 1; continue"
ForwardOnExisting(r) == [r EXCEPT !.skipped = @ + 1, !.ti = @ + 1]

(***************************************************************************)
(* ForwardPassEngine.execute, one step of its loops at a time.             *)
(***************************************************************************)
CanStartPass(p) ==
    /\ passes_started + Len(api_log) < MaxOps
    /\ store_kind \in {"memory", "mock"}
    /\ pass[p].pc \in {"idle", "done"}

\* execute(domains, target_count, max_complexity) is entered
ForwardExecute(p) ==
    /\ CanStartPass(p)
    /\ \E domains \in DomainLists, tc \in 0..MaxPassTarget :
        pass' = [pass EXCEPT ![p] =
                    [IdlePass EXCEPT !.pc = "domain", !.kind = "forward",
                                     !.domains = domains, !.target_count = tc,
                                     !.level = ForwardMaxComplexity]]
    /\ passes_started' = passes_started + 1
    /\ UNCHANGED <<storeVars, created, api_log>>
    /\ UNCHANGED <<orchVars, svcVars>>

\* for domain in domains: break when the target is reached, else load the
\* seeds; after the last domain, return the result
ForwardDomain(p) ==
    LET r == pass[p] IN
    /\ r.kind = "forward"
    /\ r.pc = "domain"
    /\ IF r.di > Len(r.domains) \/ TargetReached(r.added, r.target_count)
       THEN pass' = [pass EXCEPT ![p] =
                        [r EXCEPT !.pc = "done",
                                  !.result = ForwardPassResult(r.added, r.skipped, r.errors)]]
       ELSE \E seeds \in GetSeedConcepts(concepts, r.domains[r.di], r.level) :
                pass' = [pass EXCEPT ![p] =
                            [r EXCEPT !.pc = "seed", !.seeds = seeds, !.si = 1]]
    /\ UNCHANGED <<storeVars, passes_started, created, api_log>>
    /\ UNCHANGED <<orchVars, svcVars>>

\* for seed in seeds: break when the target is reached, else extract the
\* related terms of the seed
ForwardSeed(p) ==
    LET r == pass[p] IN
    /\ r.kind = "forward"
    /\ r.pc = "seed"
    /\ IF r.si > Len(r.seeds) \/ TargetReached(r.added, r.target_count)
       THEN pass' = [pass EXCEPT ![p] = [r EXCEPT !.pc = "domain", !.di = @ + 1]]
       ELSE pass' = [pass EXCEPT ![p] =
                        [r EXCEPT !.pc = "term",
                                  !.terms = ExtractRelatedTerms(r.seeds[r.si]),
                                  !.ti = 1]]
    /\ UNCHANGED <<storeVars, passes_started, created, api_log>>
    /\ UNCHANGED <<orchVars, svcVars>>

\* for term in related_terms: break when the target is reached; skip the
\* term when store.get_by_name finds it, else go on to create it
ForwardTerm(p) ==
    LET r == pass[p] IN
    /\ r.kind = "forward"
    /\ r.pc = "term"
    /\ IF r.ti > Len(r.terms) \/ TargetReached(r.added, r.target_count)
       THEN pass' = [pass EXCEPT ![p] = [r EXCEPT !.pc = "seed", !.si = @ + 1]]
       ELSE IF Found(GetByName(store_kind, concepts, concepts_by_name, r.terms[r.ti]))
            THEN pass' = [pass EXCEPT ![p] = ForwardOnExisting(r)]
            ELSE pass' = [pass EXCEPT ![p] = [r EXCEPT !.pc = "create"]]
    /\ UNCHANGED <<storeVars, passes_started, created, api_log>>
    /\ UNCHANGED <<orchVars, svcVars>>

\* the try block: _extract_and_create_concept(term, ...) and the counting
\* of its outcome
ForwardCreate(p) ==
    LET r == pass[p]
        term == r.terms[r.ti]
        seed == r.seeds[r.si]
    IN
    /\ r.kind = "forward"
    /\ r.pc = "create"
    /\ \E ex \in Extractions, outcome \in FailurePoints \cup {"ok"} :
        LET c == Concept(next_id, term, FormattedDefinition(ex), r.domains[r.di],
                         seed.subfield, ForwardComplexity(seed.complexity_level),
                         ex.related_terms, FALSE, FALSE)
            cs2 == CreateConcepts(concepts, c)
            bn2 == CreateByName(store_kind, concepts_by_name, c)
            rel2 == AddRequires(store_kind, cs2, relationships, c.id, seed.id)
            rel3 == LinkMentioned(store_kind, cs2, bn2, rel2, c.id, ex.prerequisites)
            entry == [id |-> c.id, by |-> "forward", trigger |-> seed.id, proc |-> p,
                      resolved |-> ex.resolved]
        IN
        CASE outcome \in {"extract", "format", "create"} ->
                \* raised before the concept reached the store
                /\ Len(r.failed) < MaxFailures
                /\ pass' = [pass EXCEPT ![p] = ForwardOnFailure(r, term, outcome, <<>>)]
                /\ UNCHANGED <<concepts, concepts_by_name, relationships, next_id, created>>
          [] outcome = "link" ->
                \* store.create succeeded, store.add_requires raised
                /\ Len(r.failed) < MaxFailures
                /\ Len(created) < MaxCreated
                /\ concepts' = cs2
                /\ concepts_by_name' = bn2
                /\ next_id' = next_id + 1
                /\ created' = Append(created, entry)
                /\ pass' = [pass EXCEPT ![p] = ForwardOnFailure(r, term, outcome, <<c.id>>)]
                /\ UNCHANGED relationships
          [] OTHER ->
                /\ Len(created) < MaxCreated
                /\ concepts' = cs2
                /\ concepts_by_name' = bn2
                /\ relationships' = rel3
                /\ next_id' = next_id + 1
                /\ created' = Append(created, entry)
                /\ pass' = [pass EXCEPT ![p] =
                              [r EXCEPT !.pc = "term", !.ti = @ + 1,
                                        !.added = @ + 1,
                                        !.succeeded = Append(@, term),
                                        !.stored = Append(@, c.id)]]
    /\ UNCHANGED <<store_kind, passes_started, api_log>>
    /\ UNCHANGED <<orchVars, svcVars>>

(***************************************************************************)
(* Backward pass: trace-back targets and prerequisite candidates.          *)
(***************************************************************************)
\* BackwardPassEngine._get_complex_concepts: the lists it can return
GetComplexTargets(kind, cs, rel, domain, min_level) ==
    LET incomplete == GetIncompleteConcepts(kind, cs, rel, domain)
    IN IF incomplete # <<>>
       THEN { Take(incomplete, ComplexCap) }
       ELSE { Take(sh, ComplexCap) :
                sh \in Shuffles(GetComplexConcepts(cs, domain, min_level)) }

\* What the generative backend answers when asked for prerequisites: the
\* comma-separated pieces of its reply (stripped), or a failure of the call.
LlmReplies ==
    { [ok |-> FALSE, parts |-> <<>>],
      [ok |-> TRUE, parts |-> <<N_Map, <<>>, N_pi>>],
      [ok |-> TRUE, parts |-> <<TermName(1), <<>>, TermName(2), TermName(3),
                                TermName(4), TermName(5), TermName(6), TermName(7)>>] }

\* BackwardPassEngine._identify_prerequisites_with_llm
IdentifyPrerequisitesWithLlm(reply) ==
    IF reply.ok
    THEN Take(SelectSeq(reply.parts, LAMBDA t : t # <<>>), LlmPrerequisitesCap)
    ELSE <<>>

RECURSIVE DedupePrerequisites(_, _, _)
\* the "deduplicate and filter" loop of _find_prerequisites
DedupePrerequisites(terms, seen, concept_name) ==
    IF terms = <<>> THEN <<>>
    ELSE IF /\ Lower(Head(terms)) \notin seen
            /\ Lower(Head(terms)) # concept_name
            /\ Len(Head(terms)) > 2
         THEN <<Head(terms)>> \o
              DedupePrerequisites(Tail(terms), seen \cup {Lower(Head(terms))},
                                  concept_name)
         ELSE DedupePrerequisites(Tail(terms), seen, concept_name)

\* the candidates found by pattern matching
PatternPrerequisites(concept, domain) ==
    SelectSeq(concept.definition_md.requires, LAMBDA t : t # <<>> /\ Len(t) > 2)
    \o concept.definition_md.see_refs
    \o SelectSeq(DOMAIN_FUNDAMENTALS(domain),
                 LAMBDA f : f \in concept.definition_md.mentions)
    \o concept.definition_md.paren

LlmAsked_Always(found) == TRUE

\* "if len(prereqs) < 3": the backend is asked for more prerequisites
LlmAsked(found) == Len(found) < LlmThreshold

\* what _find_prerequisites notes of the backend: whether it was asked, and
\* then whether the call returned, the names it returned and those used
LlmUse(concept, domain, reply, asked_before) ==
    IF LlmAsked(PatternPrerequisites(concept, domain))
    THEN [asked |-> asked_before + 1, ok |-> reply.ok,
          returned |-> SelectSeq(reply.parts, LAMBDA t : t # <<>>),
          used |-> IdentifyPrerequisitesWithLlm(reply)]
    ELSE [asked |-> asked_before, ok |-> TRUE, returned |-> <<>>, used |-> <<>>]

FindPrerequisites_NoFilter(concept, domain, reply) ==
    PatternPrerequisites(concept, domain) \o IdentifyPrerequisitesWithLlm(reply)

\* BackwardPassEngine._find_prerequisites, for a given answer of the backend
FindPrerequisites(concept, domain, reply) ==
    LET found == PatternPrerequisites(concept, domain)
        prereqs == IF LlmAsked(found)
                   THEN found \o IdentifyPrerequisitesWithLlm(reply)
                   ELSE found
    IN Take(DedupePrerequisites(prereqs, {}, Lower(concept.name)), PrerequisitesCap)

\* _create_prerequisite: complexity = max(1, dependent_complexity - 1)
BackwardComplexity(dependent_complexity) == Max(1, dependent_complexity - 1)

BackwardPassResult(added, skipped, linked, errors) ==
    [concepts_added |-> added, concepts_skipped |-> skipped,
     prerequisites_linked |-> linked, errors |-> errors]

\* the except branch of execute's term loop: record the error, go on with
\* the next term
BackwardOnFailure(r, term, cause, storedIds) ==
    [r EXCEPT !.pc = "term",
              !.ti = @ + 1,
              !.errors = Append(@, ErrorEntry("Failed to create prerequisite",
                                              term, cause)),
              !.failed = Append(@, term),
              !.stored = @ \o storedIds]

BackwardOnExisting_Uncounted(r) == [r EXCEPT !.ti = @ + 1]

\* the prerequisite exists and has been linked: "linked += 1; continue"
BackwardOnExisting(r) == [r EXCEPT !.linked = @ + 1, !.ti = @ + 1]

(***************************************************************************)
(* BackwardPassEngine.execute, one step of its loops at a time.            *)
(***************************************************************************)
\* execute(domains, target_count, min_complexity) is entered
BackwardExecute(p) ==
    /\ CanStartPass(p)
    /\ \E domains \in DomainLists, tc \in 0..MaxPassTarget :
        pass' = [pass EXCEPT ![p] =
                    [IdlePass EXCEPT !.pc = "domain", !.kind = "backward",
                                     !.domains = domains, !.target_count = tc,
                                     !.level = BackwardMinComplexity]]
    /\ passes_started' = passes_started + 1
    /\ UNCHANGED <<storeVars, created, api_log>>
    /\ UNCHANGED <<orchVars, svcVars>>

\* for domain in domains: break when the target is reached, else load the
\* complex concepts; after the last domain, return the result
BackwardDomain(p) ==
    LET r == pass[p] IN
    /\ r.kind = "backward"
    /\ r.pc = "domain"
    /\ IF r.di > Len(r.domains) \/ TargetReached(r.added, r.target_count)
       THEN pass' = [pass EXCEPT ![p] =
                        [r EXCEPT !.pc = "done",
                                  !.result = BackwardPassResult(r.added, r.skipped,
                                                                r.linked, r.errors)]]
       ELSE \E targets \in GetComplexTargets(store_kind, concepts, relationships,
                                              r.domains[r.di], r.level) :
                pass' = [pass EXCEPT ![p] =
                            [r EXCEPT !.pc = "seed", !.seeds = targets, !.si = 1]]
    /\ UNCHANGED <<storeVars, passes_started, created, api_log>>
    /\ UNCHANGED <<orchVars, svcVars>>

\* for concept in complex_concepts: break when the target is reached, else
\* find the prerequisite terms of the concept
BackwardConcept(p) ==
    LET r == pass[p] IN
    /\ r.kind = "backward"
    /\ r.pc = "seed"
    /\ IF r.si > Len(r.seeds) \/ TargetReached(r.added, r.target_count)
       THEN pass' = [pass EXCEPT ![p] = [r EXCEPT !.pc = "domain", !.di = @ + 1]]
       ELSE \E reply \in LlmReplies :
                pass' = [pass EXCEPT ![p] =
                            [r EXCEPT !.pc = "term",
                                      !.terms = FindPrerequisites(r.seeds[r.si],
                                                    r.domains[r.di], reply),
                                      !.llm = LlmUse(r.seeds[r.si], r.domains[r.di],
                                                     reply, r.llm.asked),
                                      !.ti = 1]]
    /\ UNCHANGED <<storeVars, passes_started, created, api_log>>
    /\ UNCHANGED <<orchVars, svcVars>>

\* for term in prereq_terms: break when the target is reached; link the
\* prerequisite when store.get_by_name finds it, else go on to create it
BackwardTerm(p) ==
    LET r == pass[p]
        concept == r.seeds[r.si]
    IN
    /\ r.kind = "backward"
    /\ r.pc = "term"
    /\ IF r.ti > Len(r.terms) \/ TargetReached(r.added, r.target_count)
       THEN /\ pass' = [pass EXCEPT ![p] = [r EXCEPT !.pc = "seed", !.si = @ + 1]]
            /\ UNCHANGED relationships
       ELSE LET existing == GetByName(store_kind, concepts, concepts_by_name,
                                      r.terms[r.ti])
            IN IF Found(existing)
               THEN \/ /\ relationships' = AddRequires(store_kind, concepts,
                                               relationships, concept.id, existing.id)
                       /\ pass' = [pass EXCEPT ![p] = BackwardOnExisting(r)]
                    \/ \* store.add_requires raises outside the try block
                       /\ Len(r.failed) < MaxFailures
                       /\ pass' = [pass EXCEPT ![p] =
                                    [r EXCEPT !.pc = "raised",
                                              !.failed = Append(@, r.terms[r.ti])]]
                       /\ UNCHANGED relationships
               ELSE /\ pass' = [pass EXCEPT ![p] = [r EXCEPT !.pc = "create"]]
                    /\ UNCHANGED relationships
    /\ UNCHANGED <<store_kind, concepts, concepts_by_name, next_id,
                   passes_started, created, api_log>>
    /\ UNCHANGED <<orchVars, svcVars>>

\* the try block: _create_prerequisite(term, ...), the link from the
\* dependent concept and the counting of the outcome
BackwardCreate(p) ==
    LET r == pass[p]
        term == r.terms[r.ti]
        concept == r.seeds[r.si]
    IN
    /\ r.kind = "backward"
    /\ r.pc = "create"
    /\ \E ex \in Extractions, outcome \in FailurePoints \cup {"ok"} :
        LET c == Concept(next_id, term, FormattedDefinition(ex), r.domains[r.di],
                         concept.subfield,
                         BackwardComplexity(concept.complexity_level),
                         ex.related_terms, FALSE, FALSE)
            cs2 == CreateConcepts(concepts, c)
            bn2 == CreateByName(store_kind, concepts_by_name, c)
            rel2 == AddRequires(store_kind, cs2, relationships, concept.id, c.id)
            entry == [id |-> c.id, by |-> "backward", trigger |-> concept.id,
                      proc |-> p,
                      resolved |-> ex.resolved]
        IN
        CASE outcome \in {"extract", "format", "create"} ->
                \* raised before the concept reached the store
                /\ Len(r.failed) < MaxFailures
                /\ pass' = [pass EXCEPT ![p] = BackwardOnFailure(r, term, outcome, <<>>)]
                /\ UNCHANGED <<concepts, concepts_by_name, relationships, next_id, created>>
          [] outcome = "link" ->
                \* store.create succeeded, store.add_requires raised
                /\ Len(r.failed) < MaxFailures
                /\ Len(created) < MaxCreated
                /\ concepts' = cs2
                /\ concepts_by_name' = bn2
                /\ next_id' = next_id + 1
                /\ created' = Append(created, entry)
                /\ pass' = [pass EXCEPT ![p] = BackwardOnFailure(r, term, outcome, <<c.id>>)]
                /\ UNCHANGED relationships
          [] OTHER ->
                /\ Len(created) < MaxCreated
                /\ concepts' = cs2
                /\ concepts_by_name' = bn2
                /\ relationships' = rel2
                /\ next_id' = next_id + 1
                /\ created' = Append(created, entry)
                /\ pass' = [pass EXCEPT ![p] =
                              [r EXCEPT !.pc = "term", !.ti = @ + 1,
                                        !.added = @ + 1, !.linked = @ + 1,
                                        !.succeeded = Append(@, term),
                                        !.stored = Append(@, c.id)]]
    /\ UNCHANGED <<store_kind, passes_started, api_log>>
    /\ UNCHANGED <<orchVars, svcVars>>

(***************************************************************************)
(* MVG service: JSON values, the backend's reply text and its parsing.     *)
(*                                                                         *)
(* A JSON value is a record tagged with its type; strings are character    *)
(* sequences.  A reply text is a sequence of tokens: the fence ```, the    *)
(* word json, a newline, a blank, prose that is not JSON, or one complete  *)
(* JSON document.                                                          *)
(***************************************************************************)
JNull == [type |-> "null"]

JNumber(n) == [type |-> "number", n |-> n]

JBool(b) == [type |-> "bool", b |-> b]

JString(s) == [type |-> "string", s |-> s]

JArray(items) == [type |-> "array", items |-> items]

JObject(members) == [type |-> "object", members |-> members]

Fence == [tok |-> "fence"]

JsonWord == [tok |-> "json"]

Newline == [tok |-> "newline"]

Blank == [tok |-> "blank"]

Prose == [tok |-> "This is not JSON"]

Doc(j) == [tok |-> "document", doc |-> j]

Whitespace == {Newline, Blank}

RECURSIVE LStrip(_)
LStrip(text) ==
    IF text # <<>> /\ Head(text) \in Whitespace THEN LStrip(Tail(text)) ELSE text

RECURSIVE RStrip(_)
RStrip(text) ==
    IF text # <<>> /\ text[Len(text)] \in Whitespace
    THEN RStrip(SubSeq(text, 1, Len(text) - 1))
    ELSE text

\* str.strip()
Strip(text) == RStrip(LStrip(text))

\* text with its first token removed when that token is tok
DropLeading(text, tok) ==
    IF text # <<>> /\ Head(text) = tok THEN Tail(text) ELSE text

RemoveOpeningFence_KeepWord(text) ==
    IF text # <<>> /\ Head(text) = Fence
    THEN DropLeading(Tail(text), Newline)
    ELSE text

\* re.sub(r"^```(?:json)?\n?", "", text)
RemoveOpeningFence(text) ==
    IF text # <<>> /\ Head(text) = Fence
    THEN DropLeading(DropLeading(Tail(text), JsonWord), Newline)
    ELSE text

\* re.sub(r"\n?```$", "", text)
RemoveClosingFence(text) ==
    IF text # <<>> /\ text[Len(text)] = Fence
    THEN LET rest == SubSeq(text, 1, Len(text) - 1)
         IN IF rest # <<>> /\ rest[Len(rest)] = Newline
            THEN SubSeq(rest, 1, Len(rest) - 1)
            ELSE rest
    ELSE text

\* lines 83-87: strip, then remove the code block markers
Unfence(text) ==
    LET stripped == Strip(text)
    IN IF stripped # <<>> /\ Head(stripped) = Fence
       THEN RemoveClosingFence(RemoveOpeningFence(stripped))
       ELSE stripped

\* json.loads(text): one document, white space around it allowed
JsonLoads(text) ==
    LET body == Strip(text)
    IN IF Len(body) = 1 /\ body[1].tok = "document"
       THEN [ok |-> TRUE, data |-> body[1].doc]
       ELSE [ok |-> FALSE, data |-> JNull]

\* dict.get(key, default)
DictGet(obj, key, default) ==
    IF key \in DOMAIN obj.members THEN obj.members[key] ELSE default

\* what "for item in value" iterates over: the items of a list; one str per
\* key of a dict or per character of a str (each of them fails alike at
\* item["name"]); anything else is not iterable
IterItems(value) ==
    CASE value.type = "array" -> [ok |-> TRUE, items |-> value.items]
      [] value.type = "object" ->
            [ok |-> TRUE,
             items |-> IF DOMAIN value.members = {} THEN <<>>
                       ELSE <<JString(<<>>)>>]
      [] value.type = "string" ->
            [ok |-> TRUE,
             items |-> [i \in 1..Len(value.s) |-> JString(<<value.s[i]>>)]]
      [] OTHER -> [ok |-> FALSE, items |-> <<>>]

\* the exception of item["name"], "none" when it evaluates
ItemNameError(item) ==
    IF item.type = "object"
    THEN IF "name" \in DOMAIN item.members THEN "none" ELSE "KeyError"
    ELSE "TypeError"

FindConceptByName_Exact(name, domain, cs, db_up) ==
    IF db_up /\ name.type = "string"
            /\ \E k \in 1..Len(cs) : cs[k].domain = domain /\ cs[k].name = name.s
    THEN cs[CHOOSE k \in 1..Len(cs) : cs[k].domain = domain /\ cs[k].name = name.s].id
    ELSE 0

\* MVGService._find_concept_by_name: the id of the first concept of the
\* domain (by complexity level) whose lower-cased name is name.lower();
\* None (0) when there is none or when anything raises
FindConceptByName(name, domain, cs, db_up) ==
    LET matches == { k \in 1..Len(cs) :
                        /\ cs[k].domain = domain
                        /\ Lower(cs[k].name) = Lower(name.s) }
    IN IF ~db_up \/ name.type # "string" \/ matches = {}
       THEN 0
       ELSE cs[CHOOSE k \in matches :
                  \A j \in matches :
                      \/ cs[k].complexity_level < cs[j].complexity_level
                      \/ /\ cs[k].complexity_level = cs[j].complexity_level
                         /\ k <= j].id

RECURSIVE BuildPath(_, _, _, _)
\* lines 95-110: the nodes of the items, or the exception of the first item
\* that has no "name"; ups tells, item by item, whether the read of the
\* store succeeds
BuildPath(items, domain, cs, ups) ==
    IF items = <<>> THEN [error |-> "none", path |-> <<>>]
    ELSE LET item == Head(items)
             err == ItemNameError(item)
         IN IF err # "none" THEN [error |-> err, path |-> <<>>]
            ELSE LET rest == BuildPath(Tail(items), domain, cs, Tail(ups))
                     node ==
                         [name |-> item.members["name"],
                          description |-> DictGet(item, "description", JString(<<>>)),
                          is_axiom |-> DictGet(item, "is_axiom", JBool(FALSE)),
                          concept_id |-> FindConceptByName(item.members["name"],
                                                           domain, cs, Head(ups))]
                 IN IF rest.error # "none" THEN rest
                    ELSE [error |-> "none", path |-> <<node>> \o rest.path]

Raised(kind) == [kind |-> kind]

MVGResult(target, domain, path, explanation) ==
    [kind |-> "MVGResult", target |-> target, domain |-> domain, path |-> path,
     explanation |-> explanation]

\* MVGService.generate from line 82 on, for the text of the backend's reply
ParseReply(text, target, domain, cs, ups) ==
    LET loaded == JsonLoads(Unfence(text))
        data == loaded.data
    IN IF ~loaded.ok THEN Raised("ValueError")
       ELSE IF data.type # "object" THEN Raised("AttributeError")
       ELSE LET it == IterItems(DictGet(data, "path", JArray(<<>>)))
                built == BuildPath(it.items, domain, cs, ups)
            IN IF ~it.ok THEN Raised("TypeError")
               ELSE IF built.error # "none" THEN Raised(built.error)
               ELSE MVGResult(target, domain, built.path,
                              DictGet(data, "explanation", JString(<<>>)))

\* MVGResponse.from_result: pydantic accepts the nodes
ResponseValid(mvg_result) ==
    /\ mvg_result.explanation.type = "string"
    /\ \A i \in 1..Len(mvg_result.path) :
          /\ mvg_result.path[i].name.type = "string"
          /\ mvg_result.path[i].description.type = "string"
          /\ mvg_result.path[i].is_axiom.type = "bool"

\* generate_mvg: the status of the response for an outcome of generate
HttpStatus(outcome) ==
    CASE outcome.kind = "MVGResult" -> IF ResponseValid(outcome) THEN 200 ELSE 422
      [] outcome.kind = "ValueError" -> 422
      [] outcome.kind = "RuntimeError" -> 503
      [] OTHER -> 500

(***************************************************************************)
(* The replies of the backend the model considers.                         *)
(***************************************************************************)
S_d == <<"d">>

S_e == <<"e">>

Step(name, description, is_axiom) ==
    JObject([name |-> JString(name), description |-> JString(description),
             is_axiom |-> JBool(is_axiom)])

\* {"path": [{"name": "Set", "description": "d", "is_axiom": true}],
\*  "explanation": "e"}
J_OneStep ==
    JObject([path |-> JArray(<<Step(N_Set, S_d, TRUE)>>), explanation |-> JString(S_e)])

\* two steps with names of the store, the first one in lower case
J_StoredSteps ==
    JObject([path |-> JArray(<<JObject([name |-> JString(N_set)]),
                               Step(N_Ext, S_d, TRUE)>>),
             explanation |-> JString(S_e)])

\* two steps, the second one with a name only
J_TwoSteps ==
    JObject([path |-> JArray(<<Step(N_Ext, S_d, TRUE),
                               JObject([name |-> JString(N_Map)])>>),
             explanation |-> JString(S_e)])

\* replies that are JSON but not the expected object: {}, a step without a
\* name, a step whose name is a number, the steps given as strings,
\* {"path": 5}, a JSON array, null
MalformedDocuments ==
    { JObject([k \in {} |-> JNull]),
      JObject([path |-> JArray(<<JObject([description |-> JString(S_d)])>>),
               explanation |-> JString(S_e)]),
      JObject([path |-> JArray(<<JObject([name |-> JNumber(5)])>>),
               explanation |-> JString(S_e)]),
      JObject([path |-> JArray(<<JString(N_Set)>>), explanation |-> JString(S_e)]),
      JObject([path |-> JNumber(5)]),
      JArray(<<Step(N_Set, S_d, TRUE)>>),
      JNull }

\* the documents of the replies; {"path": [], "explanation": "e"} among them
JsonDocuments ==
    { J_OneStep, J_TwoSteps, J_StoredSteps,
      JObject([path |-> JArray(<<>>), explanation |-> JString(S_e)]) }
    \cup MalformedDocuments

\* the opening fences: ``` or ```json, followed by a newline or not
OpeningFences ==
    { <<Fence>>, <<Fence, JsonWord>>, <<Fence, Newline>>, <<Fence, JsonWord, Newline>> }

\* the closing fences: ```, preceded by a newline or not
ClosingFences == { <<Fence>>, <<Newline, Fence>> }

\* a JSON text wrapped in a fenced code block
Fenced(open, j, close) == open \o <<Doc(j)>> \o close

\* the reply texts: plain documents, documents in a fenced code block, and
\* texts json.loads rejects
BackendTexts ==
    { <<Doc(j)>> : j \in JsonDocuments } \cup
    { <<Blank, Doc(J_OneStep), Newline>> } \cup
    { Fenced(open, j, close) :
        open \in OpeningFences, j \in JsonDocuments, close \in ClosingFences } \cup
    { <<Prose>>, <<>>, <<Fence>>, <<Prose, Doc(J_OneStep)>>,
      <<JsonWord, Doc(J_OneStep)>>, <<Doc(J_OneStep), Doc(J_OneStep)>>,
      <<Fence, JsonWord, Newline, Prose, Newline, Fence>> }

\* LLMService.generate: a reply with a text, or RuntimeError
BackendReplies ==
    { [ok |-> TRUE, text |-> t] : t \in BackendTexts } \cup
    { [ok |-> FALSE, text |-> <<>>] }

MvgTargets == { N_Set, N_Map }

MvgDomains == { "MATH", "CS" }

MaxPathLen == 2

(***************************************************************************)
(* POST /mvg/generate.                                                     *)
(***************************************************************************)
MvgUnused ==
    /\ m_pc = "unused"
    /\ m_request = [target |-> <<>>, domain |-> "none"]
    /\ m_reply = [ok |-> FALSE, text |-> <<>>]
    /\ m_outcome = None
    /\ m_status = 0
    /\ m_lookups = <<>>

\* generate_mvg is entered and MVGService.generate awaits the backend
\* (lines 78-80): the backend answers or fails
MvgCallBackend ==
    /\ m_pc = "idle"
    /\ \E target \in MvgTargets, domain \in MvgDomains, reply \in BackendReplies :
        /\ m_request' = [target |-> target, domain |-> domain]
        /\ m_reply' = reply
    /\ m_pc' = "replied"
    /\ m_outcome' = None
    /\ m_status' = 0
    /\ m_lookups' = <<>>
    /\ UNCHANGED <<orchVars, storeVars, passVars, fmtVars>>

\* MVGService.generate, lines 82-117: parse the reply and build the result;
\* the reads of the store may fail
MvgGenerate ==
    /\ m_pc = "replied"
    /\ \E ups \in [1..MaxPathLen -> BOOLEAN] :
        /\ m_outcome' = IF m_reply.ok
                        THEN ParseReply(m_reply.text, m_request.target,
                                        m_request.domain, concepts, ups)
                        ELSE Raised("RuntimeError")
        /\ m_lookups' = ups
    /\ m_pc' = "generated"
    /\ UNCHANGED <<m_request, m_reply, m_status>>
    /\ UNCHANGED <<orchVars, storeVars, passVars, fmtVars>>

\* generate_mvg, lines 66-70: the response
MvgRespond ==
    /\ m_pc = "generated"
    /\ m_status' = HttpStatus(m_outcome)
    /\ m_pc' = "idle"
    /\ UNCHANGED <<m_request, m_reply, m_outcome, m_lookups>>
    /\ UNCHANGED <<orchVars, storeVars, passVars, fmtVars>>
(***************************************************************************)
(* Properties of the orchestrator.                                         *)
(***************************************************************************)
InRun == o_pc \in {"loop", "done"}

\* Concepts added by the passes before pass number i.
AddedBefore(i) == SumAdded(SubSeq(calls, 1, i - 1))

\* C1: Orchestrator.run terminates whatever the engines return: it never
\* executes more than max_iterations passes, and a started run always reaches
\* the return of a GenerationResult.
C1_RunTerminates ==
    /\ [](InRun => Len(calls) <= max_iterations)
    /\ (o_pc = "loop") ~> (o_pc = "done" /\ result.kind = "GenerationResult")

\* A run with engines that never add a concept has used up the iteration cap
\* and returned.
C1_Witness ==
    /\ o_pc = "done"
    /\ target_terms > 0
    /\ max_iterations = MaxIterations
    /\ Len(calls) = max_iterations
    /\ \A i \in 1..Len(calls) : calls[i].added = 0

\* C2: within one run the first pass is a forward pass and every later pass
\* has the opposite direction of the pass before it, whatever the previous
\* pass reported.
C2_StrictAlternation ==
    InRun =>
        /\ Len(calls) >= 1 => calls[1].engine = "forward"
        /\ \A i \in 1..(Len(calls) - 1) : calls[i + 1].engine # calls[i].engine

\* Three passes forward, backward, forward although the first added nothing
\* and the second reported an error.
C2_Witness ==
    /\ o_pc = "done"
    /\ Len(calls) >= 3
    /\ calls[1].added = 0
    /\ calls[2].errors # <<>>
    /\ calls[3].engine = "forward"

\* C3: batch_size is max(1, floor(target_terms * pass_ratio)) and every pass
\* is asked for min(batch_size, target_terms - concepts added so far), which
\* lies between 1 and batch_size.
C3_BatchRequest ==
    InRun =>
        /\ batch_size = Max(1, (target_terms * pass_ratio.num) \div pass_ratio.den)
        /\ \A i \in 1..Len(calls) :
            /\ calls[i].target_count = Min(batch_size, target_terms - AddedBefore(i))
            /\ calls[i].target_count >= 1
            /\ calls[i].target_count <= batch_size

\* A pass that was asked for the remainder, which is smaller than the batch.
C3_Witness ==
    /\ InRun
    /\ Len(calls) >= 1
    /\ calls[1].target_count = batch_size
    /\ calls[Len(calls)].target_count < batch_size
    /\ calls[Len(calls)].target_count = target_terms - AddedBefore(Len(calls))

NoPassOnceReached == \A i \in 1..Len(calls) : AddedBefore(i) < target_terms

EnginesObeyRequest == \A i \in 1..Len(calls) : calls[i].added <= calls[i].target_count

\* C4 as stated: no pass is issued once the total has reached target_terms,
\* and with engines that add no more than asked the total never exceeds
\* target_terms.
C4_Original ==
    InRun =>
        /\ NoPassOnceReached
        /\ EnginesObeyRequest => current <= target_terms

\* C4 amended: the bound on the total holds for target_terms >= 0 (a negative
\* target returns a total of 0, which exceeds it).
C4_TargetRespected ==
    InRun =>
        /\ NoPassOnceReached
        /\ (EnginesObeyRequest /\ target_terms >= 0) => current <= target_terms

\* A run that reached its target exactly, in several obedient passes.
C4_Witness ==
    /\ o_pc = "done"
    /\ target_terms = 4
    /\ batch_size = 2
    /\ EnginesObeyRequest
    /\ Len(calls) = 2
    /\ result.total_concepts_added = target_terms

\* C10: run_single_pass("forward" | "backward", n) invokes that engine once
\* with target_count n and returns its result; any other pass_type raises
\* ValueError and invokes no engine.
C10_SinglePass ==
    o_pc = "single" =>
        /\ pass_type \in {"forward", "backward"} =>
            /\ Len(calls) = 1
            /\ calls[1].engine = pass_type
            /\ calls[1].target_count = target_count
            /\ result = [kind |-> "PassResult", value |-> calls[1].result]
        /\ pass_type \notin {"forward", "backward"} =>
            /\ calls = <<>>
            /\ result = [kind |-> "ValueError"]

\* An unrecognised pass type was rejected.
C10_Witness ==
    /\ o_pc = "single"
    /\ pass_type = "invalid"
    /\ result.kind = "ValueError"



\* C16: success is true exactly when concepts were added and fewer than 20
\* errors were accumulated over the passes; it is defined for every result
\* of run.
C16_SuccessFlag ==
    o_pc = "done" =>
        /\ result.kind = "GenerationResult"
        /\ result.total_concepts_added \in Int
        /\ DOMAIN result.all_errors = 1..Len(result.all_errors)
        /\ Success(result) \in BOOLEAN
        /\ Success(result) <=>
              (SumAdded(calls) > 0 /\ Len(ConcatErrors(calls)) < 20)

\* a run that added concepts is not a success because of its 20 errors
C16_Witness ==
    /\ o_pc = "done"
    /\ result.total_concepts_added > 0
    /\ Len(result.all_errors) = 20
    /\ ~Success(result)

\* C18: run returns a result with the target reached or with exactly
\* max_iterations passes executed; the cap shows only as a total below the
\* target.
C18_TargetOrCap ==
    o_pc = "done" =>
        /\ result.kind = "GenerationResult"
        /\ \/ result.total_concepts_added >= target_terms
           \/ result.total_passes = max_iterations
        /\ result.total_concepts_added < target_terms =>
              /\ Len(calls) = max_iterations
              /\ result.total_passes = max_iterations

\* two passes were allowed, both ran, and the target was not reached
C18_Witness ==
    /\ o_pc = "done"
    /\ max_iterations = 2
    /\ result.total_passes = 2
    /\ result.total_concepts_added > 0
    /\ result.total_concepts_added < target_terms

\* the passes of one direction, in the order they ran
PassesOf(engine) == SelectSeq(calls, LAMBDA c : c.engine = engine)

\* C19: the aggregates of a result - the total is the sum of the two
\* direction totals, each direction total is the sum over its passes, the
\* pass counts add up, and all_errors concatenates the passes' errors in order.
C19_Aggregates ==
    o_pc = "done" =>
        /\ result.total_concepts_added
              = result.forward_concepts + result.backward_concepts
        /\ result.total_passes = result.forward_passes + result.backward_passes
        /\ result.total_passes = Len(calls)
        /\ result.forward_passes = Len(PassesOf("forward"))
        /\ result.backward_passes = Len(PassesOf("backward"))
        /\ result.forward_concepts = SumAdded(PassesOf("forward"))
        /\ result.backward_concepts = SumAdded(PassesOf("backward"))
        /\ result.all_errors = ConcatErrors(calls)

\* a forward and a backward pass added different numbers of concepts and
\* both reported errors
C19_Witness ==
    /\ o_pc = "done"
    /\ result.forward_passes >= 1
    /\ result.backward_passes >= 1
    /\ result.forward_concepts > result.backward_concepts
    /\ result.backward_concepts > 0
    /\ Len(calls[1].errors) = 1
    /\ Len(calls[2].errors) > 1
    /\ result.all_errors = calls[1].errors \o calls[2].errors

(***************************************************************************)
(* Properties of the pass engines and the store.                           *)
(***************************************************************************)
\* the concepts a pass has created, as entries of the creation log
PassCreated == { i \in 1..Len(created) : created[i].by \in {"forward", "backward"} }

\* C5: deduplication - no pass has created a concept whose name matches,
\* ignoring letter case, the name of a concept that was in the store before it.
C5_NoCaseInsensitiveDuplicate ==
    \A i \in PassCreated :
        \A k \in 1..Len(concepts) :
            concepts[k].id < created[i].id =>
                Lower(concepts[k].name) # Lower(ConceptById(created[i].id).name)

\* C6: complexity monotonicity - a concept created by the forward pass from
\* seed S has level S.level + 1; a concept created by the backward pass for
\* dependent D has level max(1, D.level - 1).
C6_ComplexityMonotone ==
    \A i \in PassCreated :
        LET new == ConceptById(created[i].id)
            from == ConceptById(created[i].trigger)
        IN /\ created[i].by = "forward" =>
                new.complexity_level = from.complexity_level + 1
           /\ created[i].by = "backward" =>
                /\ new.complexity_level >= 1
                /\ new.complexity_level >= from.complexity_level - 1
                /\ new.complexity_level \in {1, from.complexity_level - 1}

\* a forward-created concept next to a backward-created one whose dependent
\* concept has level 1, where the floor of the backward rule applies
C6_Witness ==
    \E i, j \in PassCreated :
        /\ created[i].by = "forward"
        /\ ConceptById(created[i].id).complexity_level
              = ConceptById(created[i].trigger).complexity_level + 1
        /\ created[j].by = "backward"
        /\ ConceptById(created[j].trigger).complexity_level = 1
        /\ ConceptById(created[j].id).complexity_level = 1

\* the bookkeeping of a forward pass: it has not raised, every entry of the
\* error list names the term that failed, and what is counted as added are
\* the terms whose concept was created and is in the store
ForwardBookkeeping(r) ==
    /\ r.pc # "raised"
    /\ Len(r.errors) = Len(r.failed)
    /\ \A i \in 1..Len(r.errors) : r.errors[i].term = r.failed[i]
    /\ r.added = Len(r.succeeded)
    /\ \A i \in 1..Len(r.succeeded) :
          \E k \in 1..Len(concepts) :
              concepts[k].name = r.succeeded[i] /\ HasId(concepts, concepts[k].id)
    /\ r.pc = "done" =>
          /\ r.result.concepts_added = Len(r.succeeded)
          /\ Len(r.result.errors) = Len(r.failed)

\* the outcome of the try block for one candidate term of a forward pass
ForwardCandidateStep(r, r2) ==
    LET term == r.terms[r.ti] IN
    /\ r2.pc = "term"
    /\ r2.ti = r.ti + 1
    /\ r2.terms = r.terms
    /\ r2.seeds = r.seeds
    /\ r2.si = r.si
    /\ \/ /\ r2.added = r.added + 1
          /\ r2.errors = r.errors
       \/ /\ r2.added = r.added
          /\ Len(r2.errors) = Len(r.errors) + 1
          /\ SubSeq(r2.errors, 1, Len(r.errors)) = r.errors
          /\ r2.errors[Len(r2.errors)].term = term

\* C7: forward-pass error isolation - a candidate whose processing raises
\* adds exactly one error entry naming it, the pass goes on with the next
\* candidate, and concepts_added counts only the created concepts.
C7_ForwardErrorIsolation ==
    /\ [](\A p \in Procs : pass[p].kind = "forward" => ForwardBookkeeping(pass[p]))
    /\ [][\A p \in Procs :
            (pass[p].kind = "forward" /\ pass[p].pc = "create" /\ pass'[p] # pass[p])
                => ForwardCandidateStep(pass[p], pass'[p])]_vars

\* the first candidate of a seed failed and the second one was created
C7_Witness ==
    \E p \in Procs :
        LET r == pass[p] IN
        /\ r.kind = "forward"
        /\ r.pc = "term"
        /\ r.ti = 3
        /\ r.failed = <<r.terms[1]>>
        /\ r.errors[1].term = r.terms[1]
        /\ r.succeeded = <<r.terms[2]>>
        /\ r.added = 1

\* C8: idempotent edge creation - on the graph store and on the in-memory
\* store, two add_requires calls with the same pair leave exactly one edge.
C8_IdempotentAddRequires ==
    store_kind \in {"graph", "memory"} =>
        \A i, j \in 1..Len(api_log) :
            (/\ i < j
             /\ api_log[i].op = "add_requires"
             /\ api_log[j].op = "add_requires"
             /\ api_log[i].a = api_log[j].a
             /\ api_log[i].b = api_log[j].b)
                => EdgeCount(relationships, api_log[i].a, api_log[i].b) = 1

\* C9: every concept of the store has a level >= 0, and level 0 if it is an
\* axiom, after any sequence of passes and accepted contributions.
C9_AxiomLevelInvariant ==
    \A k \in 1..Len(concepts) :
        /\ concepts[k].is_axiom => concepts[k].complexity_level = 0
        /\ concepts[k].complexity_level >= 0

\* an accepted contribution created an axiom and a pass created a concept
C9_Witness ==
    /\ PassCreated # {}
    /\ \E i \in 1..Len(created) :
          /\ created[i].by = "contribution"
          /\ ConceptById(created[i].id).is_axiom
          /\ ConceptById(created[i].id).complexity_level = 0
    /\ \E j \in 1..Len(api_log) :
          api_log[j].op = "create_concept" /\ api_log[j].status = 200

\* a forward pass stores a concept for a term no adapter resolved
UnresolvedCreation(p) ==
    /\ pass[p].kind = "forward"
    /\ pass[p].pc = "create"
    /\ pass'[p] # pass[p]
    /\ Len(created') = Len(created) + 1
    /\ ~created'[Len(created')].resolved

SameNameCreated(i, j) ==
    /\ i \in PassCreated
    /\ j \in PassCreated
    /\ i < j
    /\ Lower(ConceptById(created[i].id).name) = Lower(ConceptById(created[j].id).name)

\* C15: the existence check and the creation are separate steps - with the
\* in-memory store, concurrent runs can both create the same name, and two
\* pass-created concepts of one name always come from two different runs.
C15_DuplicatesOnlyByRace ==
    store_kind = "memory" =>
        \A i, j \in 1..Len(created) :
            SameNameCreated(i, j) => created[i].proc # created[j].proc

\* both runs found the name absent and both created it
C15_Witness ==
    \E i, j \in 1..Len(created) :
        /\ SameNameCreated(i, j)
        /\ ConceptById(created[i].id).name = ConceptById(created[j].id).name
        /\ created[i].proc # created[j].proc
        /\ created[i].id # created[j].id

\* C17: a pass only adds - the concepts that were in the store stay as they
\* were, and no REQUIRES edge is removed.
C17_PassOnlyAdds ==
    [][(pass' # pass) =>
            /\ Len(concepts') >= Len(concepts)
            /\ SubSeq(concepts', 1, Len(concepts)) = concepts
            /\ Len(relationships') >= Len(relationships)
            /\ SubSeq(relationships', 1, Len(relationships)) = relationships]_vars

\* a pass has added a concept and an edge to a store that held the seed
\* concepts and an edge
C17_Witness ==
    /\ Len(concepts) > Len(SeedConcepts)
    /\ SubSeq(concepts, 1, Len(SeedConcepts)) = SeedConcepts
    /\ Len(api_log) = 1
    /\ api_log[1].op = "add_requires"
    /\ Len(relationships) >= 2
    /\ relationships[1] = <<api_log[1].a, api_log[1].b>>
    /\ \E p \in Procs : pass[p].pc = "done" /\ pass[p].added >= 1

\* C20: backward-pass error isolation - an exception while processing one
\* prerequisite candidate becomes an entry of the error list and execute
\* does not raise.
C20_BackwardErrorIsolation ==
    \A p \in Procs :
        pass[p].kind = "backward" =>
            /\ pass[p].pc # "raised"
            /\ Len(pass[p].errors) = Len(pass[p].failed)
            /\ \A i \in 1..Len(pass[p].errors) :
                  pass[p].errors[i].term = pass[p].failed[i]

\* the pass of p is inside its loops
InPass(p) == pass[p].pc \in {"domain", "seed", "term", "create"}

\* C21: a pass never adds more than target_count concepts, and once the
\* count is reached it only leaves its loops: no concept or edge is created
\* and no further candidate, seed or domain is examined.
C21_StopsAtTarget ==
    /\ [](\A p \in Procs :
            pass[p].kind \in {"forward", "backward"} =>
                /\ pass[p].added <= pass[p].target_count
                /\ pass[p].pc = "done" =>
                      pass[p].result.concepts_added <= pass[p].target_count)
    /\ [][\A p \in Procs :
            (/\ InPass(p)
             /\ pass[p].added >= pass[p].target_count
             /\ pass'[p] # pass[p])
                => /\ <<pass[p].pc, pass'[p].pc>> \in
                         { <<"term", "seed">>, <<"seed", "domain">>,
                           <<"domain", "done">> }
                   /\ concepts' = concepts
                   /\ relationships' = relationships
                   /\ created' = created
                   /\ pass'[p].seeds = pass[p].seeds
                   /\ pass'[p].terms = pass[p].terms
                   /\ pass'[p].ti = pass[p].ti
                   /\ pass'[p].added = pass[p].added
                   /\ pass'[p].skipped = pass[p].skipped
                   /\ pass'[p].linked = pass[p].linked
                   /\ pass'[p].errors = pass[p].errors]_vars

\* a pass asked for one concept has returned after adding it, with
\* candidates of the seed and seeds of the domain left unexamined
C21_Witness ==
    \E p \in Procs :
        LET r == pass[p] IN
        /\ r.pc = "done"
        /\ r.target_count = 1
        /\ r.result.concepts_added = 1
        /\ r.ti <= Len(r.terms)
        /\ r.si <= Len(r.seeds)

\* the complexity level of the concept with this id after the step
LevelAfter(id) ==
    LET k == CHOOSE i \in 1..Len(concepts') : concepts'[i].id = id
    IN concepts'[k].complexity_level

\* C22: every REQUIRES edge a pass creates points from a concept to a
\* concept of a strictly lower complexity level.
C22_EdgesPointDownward ==
    [][(pass' # pass) =>
            \A k \in (Len(relationships) + 1)..Len(relationships') :
                LevelAfter(relationships'[k][1]) > LevelAfter(relationships'[k][2])]_vars

\* C30: the concepts a pass has put into the store are as many as it counts
\* as added, whatever the calls after the insertion did.
C30_StoredEqualsAdded ==
    \A p \in Procs :
        pass[p].kind \in {"forward", "backward"} =>
            /\ Len(pass[p].stored) = pass[p].added
            /\ pass[p].pc = "done" =>
                  pass[p].result.concepts_added = Len(pass[p].stored)

\* the pass of p examines, in this step, a candidate the store already holds
ExaminesExisting(p) ==
    LET r == pass[p] IN
    /\ r.pc = "term"
    /\ r.ti <= Len(r.terms)
    /\ r.added < r.target_count
    /\ Found(GetByName(store_kind, concepts, concepts_by_name, r.terms[r.ti]))
    /\ pass'[p] # pass[p]

CreatesPrerequisite(p) ==
    /\ pass[p].kind = "backward"
    /\ pass[p].pc = "create"
    /\ pass'[p] # pass[p]

\* the target of the backward pass of p and the REQUIRES edge to id
TargetEdge(p, id) == <<pass[p].seeds[pass[p].si].id, id>>

\* prerequisites_linked is never below concepts_added
LinkedCoversAdded ==
    \A p \in Procs :
        pass[p].kind = "backward" =>
            /\ pass[p].linked >= pass[p].added
            /\ pass[p].pc = "done" =>
                  pass[p].result.prerequisites_linked >= pass[p].result.concepts_added

\* C24 as stated: an existing candidate is linked and counted as linked; any
\* other candidate becomes a new concept, linked and counted as added and
\* linked.
C24_Original ==
    /\ []LinkedCoversAdded
    /\ [][\A p \in Procs :
            /\ (pass[p].kind = "backward" /\ ExaminesExisting(p)) =>
                  /\ concepts' = concepts
                  /\ pass'[p].linked = pass[p].linked + 1
                  /\ pass'[p].added = pass[p].added
            /\ CreatesPrerequisite(p) =>
                  /\ Len(concepts') = Len(concepts) + 1
                  /\ pass'[p].added = pass[p].added + 1
                  /\ pass'[p].linked = pass[p].linked + 1]_vars

\* C24: an existing candidate gets one edge request target->existing and no
\* new concept, and is counted as linked once the request has returned; for
\* any other candidate a creation is attempted: when the creation and the
\* link succeed, added and linked grow by one each, and when either raises,
\* one error is recorded and neither grows.  linked >= added throughout.
C24_BackwardCounting ==
    /\ []LinkedCoversAdded
    /\ [][\A p \in Procs :
            LET r == pass[p]
                r2 == pass'[p]
            IN
            /\ (r.kind = "backward" /\ ExaminesExisting(p)) =>
                  LET existing == GetByName(store_kind, concepts, concepts_by_name,
                                            r.terms[r.ti])
                  IN /\ concepts' = concepts
                     /\ r2.added = r.added
                     /\ r2.errors = r.errors
                     /\ \/ /\ r2.pc = "term"
                           /\ r2.linked = r.linked + 1
                           /\ relationships'
                                = Append(relationships, TargetEdge(p, existing.id))
                        \/ /\ r2.pc = "raised"
                           /\ r2.linked = r.linked
                           /\ relationships' = relationships
            /\ CreatesPrerequisite(p) =>
                  \/ /\ Len(concepts') = Len(concepts) + 1
                     /\ concepts'[Len(concepts')].name = r.terms[r.ti]
                     /\ relationships'
                          = Append(relationships,
                                   TargetEdge(p, concepts'[Len(concepts')].id))
                     /\ r2.added = r.added + 1
                     /\ r2.linked = r.linked + 1
                     /\ r2.errors = r.errors
                  \/ /\ r2.added = r.added
                     /\ r2.linked = r.linked
                     /\ relationships' = relationships
                     /\ Len(r2.errors) = Len(r.errors) + 1]_vars

\* a backward pass has linked an existing prerequisite and created and
\* linked a new one
C24_Witness ==
    \E p \in Procs :
        LET r == pass[p] IN
        /\ r.kind = "backward"
        /\ r.pc = "done"
        /\ r.result.concepts_added = 1
        /\ r.result.prerequisites_linked = 2
        /\ r.result.errors = <<>>
        /\ Len(r.stored) = 1
        /\ \E i, j \in 1..Len(relationships) :
              /\ i < j
              /\ relationships[i][1] = relationships[j][1]
              /\ relationships[j][2] = r.stored[1]

(***************************************************************************)
(* Properties of the MVG service.                                          *)
(***************************************************************************)
\* the structured result the prompt asks for: an object with a path array
\* of named steps and an explanation
IsExpectedResult(data) ==
    /\ data.type = "object"
    /\ {"path", "explanation"} \subseteq DOMAIN data.members
    /\ data.members["explanation"].type = "string"
    /\ data.members["path"].type = "array"
    /\ \A i \in 1..Len(data.members["path"].items) :
          LET item == data.members["path"].items[i]
          IN /\ item.type = "object"
             /\ "name" \in DOMAIN item.members
             /\ item.members["name"].type = "string"

\* the reply text parses as the expected structured result
ParsesAsExpected(text) ==
    /\ JsonLoads(Unfence(text)).ok
    /\ IsExpectedResult(JsonLoads(Unfence(text)).data)

\* C11: generate raises ValueError (HTTP 422) for every backend text that
\* cannot be parsed as the expected structured result; a backend failure is
\* a RuntimeError (HTTP 503).
C11_ParseFailureIsValueError ==
    /\ (m_pc = "generated" /\ m_reply.ok /\ ~ParsesAsExpected(m_reply.text))
            => m_outcome.kind = "ValueError"
    /\ (m_pc = "generated" /\ ~m_reply.ok) => m_outcome.kind = "RuntimeError"
    /\ (m_pc = "idle" /\ m_status # 0) =>
            /\ (m_reply.ok /\ ~ParsesAsExpected(m_reply.text)) => m_status = 422
            /\ ~m_reply.ok => m_status = 503

\* what a caller sees of an outcome apart from the concept links
Visible(outcome) ==
    IF outcome.kind = "MVGResult"
    THEN [kind |-> "MVGResult",
          path |-> [i \in 1..Len(outcome.path) |->
                        <<outcome.path[i].name, outcome.path[i].description,
                          outcome.path[i].is_axiom>>],
          explanation |-> outcome.explanation]
    ELSE [kind |-> outcome.kind, path |-> <<>>, explanation |-> JString(<<>>)]

\* C12: parsing is transparent to code fencing - for a JSON text J, generate
\* gives for J inside a ``` or ```json fence what it gives for J alone, with
\* one node per path entry of J, in J's order.
C12_FenceTransparent ==
    (m_pc = "generated" /\ m_reply.ok) =>
        \A open \in OpeningFences, close \in ClosingFences, j \in JsonDocuments :
            m_reply.text = Fenced(open, j, close) =>
                /\ Visible(m_outcome)
                      = Visible(ParseReply(<<Doc(j)>>, m_request.target,
                                           m_request.domain, concepts, m_lookups))
                /\ IsExpectedResult(j) =>
                      /\ m_outcome.kind = "MVGResult"
                      /\ Len(m_outcome.path) = Len(j.members["path"].items)
                      /\ \A i \in 1..Len(m_outcome.path) :
                            m_outcome.path[i].name
                                = j.members["path"].items[i].members["name"]
                      /\ m_outcome.explanation = j.members["explanation"]

\* a two-step path inside a ```json fence came back as two nodes in order
C12_Witness ==
    /\ m_pc = "generated"
    /\ m_reply.ok
    /\ m_reply.text = Fenced(<<Fence, JsonWord, Newline>>, J_TwoSteps, <<Newline, Fence>>)
    /\ m_outcome.kind = "MVGResult"
    /\ Len(m_outcome.path) = 2
    /\ m_outcome.path[1].name = JString(N_Ext)
    /\ m_outcome.path[1].is_axiom = JBool(TRUE)
    /\ m_outcome.path[2].name = JString(N_Map)
    /\ m_outcome.path[2].is_axiom = JBool(FALSE)
    /\ m_outcome.explanation = JString(S_e)

(***************************************************************************)
(* Properties of the definition formatter.                                 *)
(***************************************************************************)
\* C14: format_definition makes no backend call and keeps the raw text as
\* the body exactly when the raw definition is non-empty and has recognised
\* notation; otherwise it makes exactly one call (formalize for a non-empty
\* text, generate for an empty one) and the reply is the body.
C14_FormatterBranches ==
    LET raw == f_raw_data.definition
        verbatim == raw # <<>> /\ HasLatex(raw)
    IN f_pc \in {"done", "raised"} =>
        /\ verbatim <=> f_calls = <<>>
        /\ verbatim => f_pc = "done" /\ f_md.body = raw
        /\ ~verbatim =>
            /\ Len(f_calls) = 1
            /\ f_calls[1].kind = IF raw # <<>> THEN "formalize" ELSE "generate"
            /\ f_pc = "done" => f_md.body \in { c.text : c \in Completions }

\* an unrecognised LaTeX command alone was sent to the backend to formalize
C14_Witness ==
    /\ f_pc = "done"
    /\ f_raw_data.definition = <<"\\alpha">>
    /\ Len(f_calls) = 1
    /\ f_calls[1].kind = "formalize"
    /\ f_md.body = <<"$", "x", "$">>

\* the concepts of the request's domain whose name is the name of the node,
\* ignoring case
NameMatches(node) ==
    { k \in 1..Len(concepts) :
        /\ node.name.type = "string"
        /\ concepts[k].domain = m_request.domain
        /\ Lower(concepts[k].name) = Lower(node.name.s) }

\* C29: generate is read-only on the graph store, and a step of the path it
\* returns carries a concept_id exactly when the read of the store for the
\* domain succeeds and holds a concept whose name is the step's name
\* ignoring case (the id of such a concept); otherwise the step is unlinked.
C29_ReadOnlyLinking ==
    /\ [](m_pc = "generated" /\ m_outcome.kind = "MVGResult" =>
            \A i \in 1..Len(m_outcome.path) :
                LET node == m_outcome.path[i] IN
                IF m_lookups[i] /\ NameMatches(node) # {}
                THEN \E k \in NameMatches(node) : node.concept_id = concepts[k].id
                ELSE node.concept_id = 0)
    /\ [][m_pc = "replied" =>
            UNCHANGED <<store_kind, concepts, concepts_by_name, relationships,
                        next_id>>]_vars

\* a path of two steps with names of the store: the first one linked though
\* spelled in lower case, the second one unlinked as the read failed
C29_Witness ==
    /\ m_pc = "generated"
    /\ m_outcome.kind = "MVGResult"
    /\ Len(m_outcome.path) = 2
    /\ m_outcome.path[1].name = JString(N_set)
    /\ m_outcome.path[1].concept_id = 2
    /\ ~m_lookups[2]
    /\ NameMatches(m_outcome.path[2]) # {}
    /\ m_outcome.path[2].concept_id = 0

(***************************************************************************)
(* Properties of the seed list and of the candidate lists.                 *)
(***************************************************************************)
\* the position of the first occurrence of a name in a list of names
FirstIndex(names, name) ==
    CHOOSE k \in 1..Len(names) :
        /\ names[k] = name
        /\ \A j \in 1..(k - 1) : names[j] # name

\* no two entries of the list are equal ignoring letter case
NoCaseDuplicates(names) ==
    \A i, j \in 1..Len(names) : i # j => Lower(names[i]) # Lower(names[j])

\* C25: the seed list of the forward pass for a domain lists all axioms of
\* the domain first, then concepts of the domain with complexity_level in
\* [1, max_complexity], and never holds more than 20 concepts.
C25_SeedCap ==
    \A p \in Procs :
        (pass[p].kind = "forward" /\ pass[p].pc \in {"seed", "term", "create"}) =>
            LET r == pass[p]
                domain == r.domains[r.di]
                axioms == GetAxioms(concepts, domain)
            IN /\ Len(r.seeds) <= 20
               /\ Len(axioms) <= Len(r.seeds)
               /\ SubSeq(r.seeds, 1, Len(axioms)) = axioms
               /\ \A i \in (Len(axioms) + 1)..Len(r.seeds) :
                    /\ r.seeds[i].domain = domain
                    /\ r.seeds[i].complexity_level >= 1
                    /\ r.seeds[i].complexity_level <= r.level

\* C26: the candidate list of the forward pass for a seed has at most 10
\* entries, no two entries equal ignoring letter case, never the seed's own
\* name ignoring case, and keeps the order of first occurrence in the
\* related concepts, then the bold spans, then the see-also matches.
C26_CandidateList ==
    \A p \in Procs :
        (pass[p].kind = "forward" /\ pass[p].pc \in {"term", "create"}) =>
            LET r == pass[p]
                seed == r.seeds[r.si]
                raw == seed.related_concepts \o seed.definition_md.bold
                            \o seed.definition_md.see_also
            IN /\ Len(r.terms) <= 10
               /\ NoCaseDuplicates(r.terms)
               /\ \A i \in 1..Len(r.terms) : Lower(r.terms[i]) # Lower(seed.name)
               /\ \A i \in 1..Len(r.terms) : \E k \in 1..Len(raw) : raw[k] = r.terms[i]
               /\ \A i, j \in 1..Len(r.terms) :
                    i < j => FirstIndex(raw, r.terms[i]) < FirstIndex(raw, r.terms[j])

\* C27: the prerequisite candidate list of the backward pass for a target
\* has at most 8 entries, no two entries equal ignoring letter case, never
\* the target's own name ignoring case, and only entries longer than 2
\* characters.
C27_PrerequisiteList ==
    \A p \in Procs :
        (pass[p].kind = "backward" /\ pass[p].pc \in {"term", "create"}) =>
            LET r == pass[p]
                target == r.seeds[r.si]
            IN /\ Len(r.terms) <= 8
               /\ NoCaseDuplicates(r.terms)
               /\ \A i \in 1..Len(r.terms) :
                    /\ Lower(r.terms[i]) # Lower(target.name)
                    /\ Len(r.terms[i]) > 2

\* a target whose text names more prerequisites than the list holds, among
\* them one name in two spellings, its own name and a two-letter name
C27_Witness ==
    \E p \in Procs :
        /\ pass[p].kind = "backward"
        /\ pass[p].pc = "term"
        /\ Len(pass[p].terms) = 8
        /\ LET target == pass[p].seeds[pass[p].si]
               found == PatternPrerequisites(target, pass[p].domains[pass[p].di])
           IN /\ Len(found) > 8
              /\ ~NoCaseDuplicates(found)
              /\ \E k \in 1..Len(found) : Lower(found[k]) = Lower(target.name)
              /\ \E k \in 1..Len(found) : Len(found[k]) <= 2

\* the finder is run for a target by this step
FinderRuns(p) ==
    /\ pass[p].kind = "backward"
    /\ pass[p].pc = "seed"
    /\ pass[p].si <= Len(pass[p].seeds)
    /\ pass[p].added < pass[p].target_count
    /\ pass'[p] # pass[p]

\* C28: the prerequisite finder asks the generative backend exactly when
\* pattern matching found fewer than 3 candidates; at most 5 of the returned
\* names are used, and a failed backend call contributes no candidates and
\* does not raise out of the finder.
C28_BackendSupplement ==
    [][\A p \in Procs :
        FinderRuns(p) =>
            LET r == pass[p]
                r2 == pass'[p]
                found == PatternPrerequisites(r.seeds[r.si], r.domains[r.di])
                names == {found[k] : k \in 1..Len(found)}
                            \cup {r2.llm.used[k] : k \in 1..Len(r2.llm.used)}
            IN /\ r2.pc = "term"
               /\ r2.llm.asked - r.llm.asked = IF Len(found) < 3 THEN 1 ELSE 0
               /\ Len(found) >= 3 => r2.llm.used = <<>>
               /\ Len(r2.llm.used) <= 5
               /\ r2.llm.used = SubSeq(r2.llm.returned, 1, Len(r2.llm.used))
               /\ ~r2.llm.ok => r2.llm.used = <<>>
               /\ \A i \in 1..Len(r2.terms) : r2.terms[i] \in names]_vars

\* the backend was asked, returned seven names, and five of them are the
\* candidates
C28_Witness ==
    \E p \in Procs :
        /\ pass[p].kind = "backward"
        /\ pass[p].pc = "term"
        /\ pass[p].llm.asked = 1
        /\ pass[p].llm.ok
        /\ Len(pass[p].llm.returned) = 7
        /\ Len(pass[p].llm.used) = 5
        /\ pass[p].terms = pass[p].llm.used

(***************************************************************************)
(* The specifications.                                                     *)
(***************************************************************************)
OrchUnused ==
    /\ o_pc = "unused"
    /\ target_terms = 0
    /\ pass_ratio = [num |-> 1, den |-> 10]
    /\ max_iterations = 0
    /\ batch_size = 0
    /\ current = 0
    /\ pass_type = "forward"
    /\ iteration = 0
    /\ forward_total = 0
    /\ backward_total = 0
    /\ forward_passes = 0
    /\ backward_passes = 0
    /\ all_errors = <<>>
    /\ target_count = 0
    /\ calls = <<>>
    /\ result = None

OrchNext ==
    \/ RunStart
    \/ RunForwardPass
    \/ RunBackwardPass
    \/ RunReturn
    \/ RunSinglePass

\* the services are not called in the orchestrator and pass models
Init == OrchInit /\ StoreUnused /\ MvgUnused /\ FmtUnused

Next == OrchNext

\* Orchestrator.run and run_single_pass
Spec == Init /\ [][Next]_vars

\* A call of run that has started keeps executing: each pass engine returns.
SpecLive ==
    Spec /\ WF_vars(RunForwardPass) /\ WF_vars(RunBackwardPass) /\ WF_vars(RunReturn)

PassInit == StoreInit /\ OrchUnused /\ MvgUnused /\ FmtUnused

\* One pass runs at a time; direct store operations happen between passes.
\* The engines cannot run on the graph store, which has no get_by_name.
\* store.add_requires may raise for any store (ConceptStore is a Protocol);
\* contributions are admitted on every store kind so that they interleave
\* with the passes.
PassNext ==
    \/ StoreAddRequires
    \/ CreateConcept
    \/ \E p \in {1} :
        \/ ForwardExecute(p)
        \/ ForwardDomain(p)
        \/ ForwardSeed(p)
        \/ ForwardTerm(p)
        \/ ForwardCreate(p)
        \/ BackwardExecute(p)
        \/ BackwardDomain(p)
        \/ BackwardConcept(p)
        \/ BackwardTerm(p)
        \/ BackwardCreate(p)

\* The pass engines and the direct store operations on one store.
SpecPass == PassInit /\ [][PassNext]_vars

\* the service is idle and reads a graph store
MvgSpecInit ==
    /\ store_kind = "graph"
    /\ concepts \in InitialConcepts
    /\ concepts_by_name = <<>>
    /\ relationships = <<>>
    /\ next_id = 4
    /\ pass = [p \in Procs |-> IdlePass]
    /\ passes_started = 0
    /\ created = <<>>
    /\ api_log = <<>>
    /\ OrchUnused
    /\ FmtUnused
    /\ m_pc = "idle"
    /\ m_request = [target |-> <<>>, domain |-> "none"]
    /\ m_reply = [ok |-> FALSE, text |-> <<>>]
    /\ m_outcome = None
    /\ m_status = 0
    /\ m_lookups = <<>>

MvgNext ==
    \/ MvgCallBackend
    \/ MvgGenerate
    \/ MvgRespond

\* POST /mvg/generate on a graph store
SpecMvg == MvgSpecInit /\ [][MvgNext]_vars

\* format_definition has been called with a raw definition
FmtSpecInit ==
    /\ StoreUnused
    /\ OrchUnused
    /\ MvgUnused
    /\ f_pc = "entered"
    /\ \E d \in RawDefinitions, n \in NotationLists :
          f_raw_data = RawConceptData(N_Set, "MATH", "set_theory", d, n, <<>>)
    /\ f_calls = <<>>
    /\ f_md = NoCard

FmtNext ==
    \/ FormatEnter
    \/ FormatRun

\* DefinitionFormatter.format_definition on bounded raw definitions
SpecFmt == FmtSpecInit /\ [][FmtNext]_vars

\* two runs of the generator share the in-memory store
RaceInit == PassInit /\ store_kind = "memory" /\ concepts = SeedConcepts

\* each of the two runs executes one pass
RaceForwardExecute(p) == pass[p].pc = "idle" /\ ForwardExecute(p)

RaceBackwardExecute(p) == pass[p].pc = "idle" /\ BackwardExecute(p)

RaceNext ==
    \E p \in Procs :
        \/ RaceForwardExecute(p)
        \/ ForwardDomain(p)
        \/ ForwardSeed(p)
        \/ ForwardTerm(p)
        \/ ForwardCreate(p)
        \/ RaceBackwardExecute(p)
        \/ BackwardDomain(p)
        \/ BackwardConcept(p)
        \/ BackwardTerm(p)
        \/ BackwardCreate(p)

\* Pass runs that execute concurrently against one store.
SpecRace == RaceInit /\ [][RaceNext]_vars

(***************************************************************************)
(* A crowded store: many axioms, a seed with a long list of related names  *)
(* and complex concepts with many, and with no, prerequisite names.        *)
(***************************************************************************)
MaxAxioms == 21

\* the seed names itself in two spellings, a name in two spellings and more
\* names than the candidate list holds; the text of the complex concept
\* names as many prerequisites, its own name and a two-letter name
CrowdedConcepts(n) ==
    LET related == <<N_Set, N_set, TermName(1), Lower(TermName(1))>>
                        \o [i \in 1..RelatedTermsCap |-> TermName(i + 1)]
        requires == <<TermName(1), Lower(TermName(1)), N_pi>>
                        \o [i \in 1..PrerequisitesCap |-> TermName(i + 1)]
    IN [i \in 1..n |-> Concept(100 + i, AxiomName(i), EmptyDefinition, "MATH",
                               "logic", 0, <<>>, TRUE, TRUE)]
       \o << Concept(1, N_Set, EmptyDefinition, "MATH", "set_theory", 1,
                     related, FALSE, TRUE),
             Concept(2, N_Vec,
                     Definition(<<>>, <<>>, requires, <<N_set, Lower(N_Vec)>>,
                                {}, <<N_pi>>),
                     "MATH", "linear_algebra", 2, <<>>, FALSE, TRUE),
             Concept(3, N_Ring, EmptyDefinition, "MATH", "algebra", 3, <<>>,
                     FALSE, TRUE) >>

ListsInit ==
    /\ store_kind = "memory"
    /\ \E n \in {0, SeedCap - 1, SeedCap, MaxAxioms} : concepts = CrowdedConcepts(n)
    /\ concepts_by_name = IndexByName(concepts)
    /\ relationships = <<>>
    /\ next_id = 4
    /\ pass = [p \in Procs |-> IdlePass]
    /\ passes_started = 0
    /\ created = <<>>
    /\ api_log = <<>>
    /\ OrchUnused /\ MvgUnused /\ FmtUnused

ListsNext ==
    \E p \in {1} :
        \/ RaceForwardExecute(p)
        \/ ForwardDomain(p)
        \/ ForwardSeed(p)
        \/ ForwardTerm(p)
        \/ ForwardCreate(p)
        \/ RaceBackwardExecute(p)
        \/ BackwardDomain(p)
        \/ BackwardConcept(p)
        \/ BackwardTerm(p)
        \/ BackwardCreate(p)

\* One pass over a crowded in-memory store.
SpecLists == ListsInit /\ [][ListsNext]_vars

====
